---- MODULE Spec2Model ----
(***************************************************************************)
(* Guardian: the tiered approval engine of the gateway.                    *)
(*   - rules.ts            risk classification, rule matching, thresholds  *)
(*   - budget.ts           session / daily budget ledger                   *)
(*   - llm-evaluator.ts    Tier 2, the delegated adjudicator               *)
(*   - hook.ts             the before_tool_call handler (orchestration)    *)
(*   - guardian-approvals.ts   Tier 3, the pending approvals (manager)     *)
(* Three specifications share the module: Spec (the hook with its budget   *)
(* tracker and caches), SpecApproval (the approval manager) and SpecLLM    *)
(* (evaluateWithLLM with parseDecision).                                   *)
(***************************************************************************)
EXTENDS Integers, Sequences, FiniteSets, TLC

VARIABLES
    \* ---- hook.ts: one Guardian instance
    cfg,               \* GuardianHookParams of the instance (fixed after Init)
    evals,             \* the handler invocations, one record per invocation
    taskAllowCache,    \* Set<string> of cache keys (allow-session)
    alwaysAllowCache,  \* Set<string> of cache keys (allow-always)
    \* ---- budget.ts: the tracker of the instance
    sessionTotal,      \* let sessionTotal
    sessionCosts,      \* Map agentId -> cost
    dailyCache,        \* DailyBudgetEntry | null (None or Some)
    ledger,            \* the budget file: the entries of its daily array
    file,              \* the budget file: what a read finds, whether a write succeeds
    today,             \* todayKey(), as a day number
    peer,              \* a second tracker created for the same budget file
    \* ---- guardian-approvals.ts: one GuardianApprovalManager
    pending,           \* Map id -> PendingEntry (the registration it holds)
    regs,              \* the records created, with their waiter and timer
    now,               \* Date.now()
    lastOp,            \* the call of resolve just made and what it returned
    \* ---- server-methods/guardian-approval.ts: the gateway handlers of the manager
    gateway,           \* per accepted request: what the handler did, what it responded
    \* ---- approval-forwarder.ts: one forwarder
    forwarder,         \* the entries handed over, with their timers, and the pending map
    \* ---- llm-evaluator.ts
    llm,               \* one evaluateWithLLM call
    \* ---- a caller of the exported functions
    probe              \* the call just made to a tracker or rule function, and its result

vars == <<cfg, evals, taskAllowCache, alwaysAllowCache, sessionTotal, sessionCosts,
          dailyCache, ledger, file, today, peer, pending, regs, now, lastOp, gateway,
          forwarder, llm, probe>>

hookVars == <<cfg, evals, taskAllowCache, alwaysAllowCache>>
budgetVars == <<sessionTotal, sessionCosts, dailyCache, ledger, file, today, peer>>
approvalVars == <<pending, regs, now, lastOp, gateway, forwarder>>

\* ---- bounds of the model
MaxEvals == 2       \* handler invocations of one instance
MaxDay == 2         \* calendar days the run spans
MaxRegs == 2        \* approval records created
MaxTime == 2        \* clock ticks of the approval manager
MaxTextLen == 4     \* tokens of an adjudicator answer
MaxSpend == 3       \* cents a caller of the tracker records (session, day, file)

\* undefined / null of the source
Undef == "undefined"
Null == "null"
\* an optional number that is not set
NoNumber == -1
\* an optional object: <<>> when absent, <<object>> when present
None == <<>>
Some(x) == <<x>>

(***************************************************************************)
(* Strings, parameter values, parameter maps                               *)
(***************************************************************************)
\* str.includes(needle)
Contains(s, n) == \E i \in 1..(Len(s) - Len(n) + 1) : SubSeq(s, i, i + Len(n) - 1) = n

\* a parameter value: a string or a number (kept by its digits)
StrVal(s) == [t |-> "string", s |-> s]
NumVal(s) == [t |-> "number", s |-> s]

\* JSON.stringify(v): a string gets quotes, a number is its digits
JSONstringify(v) == IF v.t = "string" THEN "\"" \o v.s \o "\"" ELSE v.s

\* typeof paramValue === "string" ? paramValue : JSON.stringify(paramValue)
Stringified(v) == IF v.t = "string" THEN v.s ELSE JSONstringify(v)

\* the parameter keys of the model in localeCompare order
KeyOrder == <<"a", "a=\"x\"&command", "command", "path">>

P_ls == ("command" :> StrVal("ls"))
P_rm == ("command" :> StrVal("rm -rf /data"))
P_tmp == ("path" :> StrVal("/tmp/x"))
P_env == ("path" :> StrVal("/app/.env"))
\* two different maps: { a: "x", command: "rm -rf /data" } and a map with the single
\* key  a="x"&command
P_two == ("a" :> StrVal("x")) @@ ("command" :> StrVal("rm -rf /data"))
P_inj == ("a=\"x\"&command" :> StrVal("rm -rf /data"))
P_none == [k \in {} |-> StrVal("")]

ParamMaps == {P_ls, P_rm, P_tmp, P_env, P_two, P_inj, P_none}
ToolNames == {"read", "write", "exec", "gateway", "deploy"}

Call(tool, params) == [toolName |-> tool, params |-> params]

\* the tool calls the hook is driven with
HookCalls == { Call("read", P_tmp), Call("exec", P_two), Call("exec", P_inj) }

(***************************************************************************)
(* hook.ts: cacheKey                                                       *)
(***************************************************************************)
\* Object.entries(toolParams).toSorted(([a], [b]) => a.localeCompare(b))
SortedKeys(p) == SelectSeq(KeyOrder, LAMBDA k : k \in DOMAIN p)

RECURSIVE JoinAmp(_)
\* parts.join("&")
JoinAmp(parts) ==
    IF Len(parts) = 0 THEN ""
    ELSE IF Len(parts) = 1 THEN parts[1]
    ELSE parts[1] \o "&" \o JoinAmp(Tail(parts))

\* `${toolName}:${sorted.map(([k, v]) => `${k}=${JSON.stringify(v)}`).join("&")}`
cacheKey(toolName, p) ==
    toolName \o ":" \o
    JoinAmp([i \in 1..Len(SortedKeys(p)) |->
                SortedKeys(p)[i] \o "=" \o JSONstringify(p[SortedKeys(p)[i]])])

(***************************************************************************)
(* rules.ts                                                                *)
(***************************************************************************)
RiskLevels == {"low", "medium", "high", "critical"}
TrustLevels == {"owner", "allowed", "unknown", "subagent"}

RISK_ORDER == [r \in RiskLevels |->
    CASE r = "low" -> 0 [] r = "medium" -> 1 [] r = "high" -> 2 [] r = "critical" -> 3]

TRUST_ORDER == [t \in TrustLevels |->
    CASE t = "owner" -> 3 [] t = "allowed" -> 2 [] t = "unknown" -> 1 [] t = "subagent" -> 0]

\* a comparison of risks that leaves out equality
riskAbove(level, threshold) == RISK_ORDER[level] > RISK_ORDER[threshold]

riskAtLeast(level, threshold) == RISK_ORDER[level] >= RISK_ORDER[threshold]

\* the later of two risks, whatever their order
laterRisk(a, b) == b

maxRisk(a, b) == IF RISK_ORDER[a] >= RISK_ORDER[b] THEN a ELSE b

trustAtLeast(level, min) == TRUST_ORDER[level] >= TRUST_ORDER[min]

resolveTrustLevel(senderIsOwner, isSubagent, isAllowed) ==
    IF senderIsOwner THEN "owner"
    ELSE IF isSubagent THEN "subagent"
    ELSE IF isAllowed THEN "allowed"
    ELSE "unknown"

\* TOOL_RISK_DEFAULTS[toolName] ?? "medium" (the tools of the model)
getBaseRisk(toolName) ==
    CASE toolName = "read" -> "low"
      [] toolName = "write" -> "medium"
      [] toolName = "exec" -> "high"
      [] toolName = "gateway" -> "critical"
      [] OTHER -> "medium"

\* the alternatives of each escalation pattern (the patterns are /i; the values of
\* the model are lower case, single-spaced)
SensitivePath == {"config", ".env", "secret", "credential", ".ssh", ".gnupg"}
DestructiveCommand == {"rm -rf", "drop table", "delete from", "truncate table", "mkfs",
                       "dd if=", "shutdown", "reboot"}

PARAM_ESCALATIONS == <<
    [tool |-> "write", paramKey |-> "path", pattern |-> SensitivePath,
     escalateTo |-> "critical", label |-> "write to sensitive path"],
    [tool |-> "edit", paramKey |-> "path", pattern |-> SensitivePath,
     escalateTo |-> "critical", label |-> "edit sensitive path"],
    [tool |-> "exec", paramKey |-> "command", pattern |-> DestructiveCommand,
     escalateTo |-> "critical", label |-> "destructive command"],
    [tool |-> "message", paramKey |-> "action", pattern |-> {"broadcast"},
     escalateTo |-> "critical", label |-> "broadcast message"] >>

\* esc.pattern.test(str): one of the alternatives occurs in str
PatternTest(alternatives, str) == \E n \in alternatives : Contains(str, n)

EscalationHits(esc, toolName, p) ==
    /\ esc.tool = toolName
    /\ esc.paramKey \in DOMAIN p
    /\ PatternTest(esc.pattern, Stringified(p[esc.paramKey]))

\* an evaluation that looks at no parameter
noParamEscalation(toolName, p) == None

\* the first escalation of the list that hits, or null (None)
checkParamEscalations(toolName, p) ==
    LET hits == {i \in 1..Len(PARAM_ESCALATIONS) : EscalationHits(PARAM_ESCALATIONS[i], toolName, p)}
    IN  IF hits = {} THEN None
        ELSE LET i == CHOOSE j \in hits : \A k \in hits : j <= k
             IN  Some([risk |-> PARAM_ESCALATIONS[i].escalateTo,
                       label |-> PARAM_ESCALATIONS[i].label])

RECURSIVE GlobRec(_, _)
\* the anchored regular expression globMatch builds: * is any run, ? one character
GlobRec(pattern, value) ==
    IF Len(pattern) = 0 THEN Len(value) = 0
    ELSE IF SubSeq(pattern, 1, 1) = "*"
         THEN \E i \in 0..Len(value) :
                 GlobRec(SubSeq(pattern, 2, Len(pattern)), SubSeq(value, i + 1, Len(value)))
    ELSE /\ Len(value) > 0
         /\ SubSeq(pattern, 1, 1) \in {"?", SubSeq(value, 1, 1)}
         /\ GlobRec(SubSeq(pattern, 2, Len(pattern)), SubSeq(value, 2, Len(value)))

globMatch(pattern, value) ==
    IF pattern = "*" THEN TRUE
    ELSE IF ~Contains(pattern, "*") /\ ~Contains(pattern, "?") THEN pattern = value
    ELSE GlobRec(pattern, value)

\* a GuardianRule; absent fields are Undef, paramMatches is a map key -> pattern
Rule(id, tool, paramMatches, minTrust, riskLevel, action, label) ==
    [id |-> id, tool |-> tool, paramMatches |-> paramMatches, minTrust |-> minTrust,
     riskLevel |-> riskLevel, action |-> action, label |-> label]

\* new RegExp(pattern, "i").test(str): the patterns of the model are literal words,
\* for which the regular expression and the substring fallback agree
matchRule(rule, toolName, p, trustLevel) ==
    /\ rule.tool # Undef => globMatch(rule.tool, toolName)
    /\ rule.minTrust # Undef => trustAtLeast(trustLevel, rule.minTrust)
    /\ \A key \in DOMAIN rule.paramMatches :
          /\ key \in DOMAIN p
          /\ Contains(Stringified(p[key]), rule.paramMatches[key])

\* the index of the last rule of the list that matches, or 0
LastMatch(allRules, toolName, p, trustLevel) ==
    LET m == {i \in 1..Len(allRules) : matchRule(allRules[i], toolName, p, trustLevel)}
    IN  IF m = {} THEN 0 ELSE CHOOSE i \in m : \A k \in m : i >= k

\* the index of the first rule of the list that matches, or 0
FirstMatch(allRules, toolName, p, trustLevel) ==
    LET m == {i \in 1..Len(allRules) : matchRule(allRules[i], toolName, p, trustLevel)}
    IN  IF m = {} THEN 0 ELSE CHOOSE i \in m : \A k \in m : i <= k

RuleResult(decision, riskLevel, trustLevel, reason, ruleLabel) ==
    [decision |-> decision, riskLevel |-> riskLevel, trustLevel |-> trustLevel,
     reason |-> reason, ruleLabel |-> ruleLabel]

\* a ?? b the wrong way round: the second operand unless it is undefined
CoalesceLatter(a, b) == IF b # Undef THEN b ELSE a

Coalesce(a, b) == IF a # Undef THEN a ELSE b

\* a threshold that is the same for every trust level
sameThreshold(threshold, trustLevel) == threshold

\* a threshold that is one level higher for a subagent
lenientThreshold(threshold, trustLevel) ==
    IF trustLevel = "subagent" /\ RISK_ORDER[threshold] < 3
    THEN CHOOSE r \in RiskLevels : RISK_ORDER[r] = RISK_ORDER[threshold] + 1
    ELSE threshold

\* levels[RISK_ORDER[threshold] - 1] for a subagent, when RISK_ORDER[threshold] > 0
adjustedThreshold(threshold, trustLevel) ==
    IF trustLevel = "subagent" /\ RISK_ORDER[threshold] > 0
    THEN CHOOSE r \in RiskLevels : RISK_ORDER[r] = RISK_ORDER[threshold] - 1
    ELSE threshold

evaluateRules(toolName, p, globalRules, agentRules, threshold, trustLevel) ==
    LET paramEscalation == checkParamEscalations(toolName, p)
        riskLevel == IF paramEscalation # None
                     THEN maxRisk(getBaseRisk(toolName), paramEscalation[1].risk)
                     ELSE getBaseRisk(toolName)
        escalationLabel == IF paramEscalation # None THEN paramEscalation[1].label ELSE Undef
        allRules == agentRules \o globalRules
        hit == FirstMatch(allRules, toolName, p, trustLevel)
        adjusted == adjustedThreshold(threshold, trustLevel)
    IN  IF hit # 0
        THEN LET rule == allRules[hit]
             IN  RuleResult(Coalesce(rule.action, "escalate"),
                            IF rule.riskLevel # Undef THEN maxRisk(riskLevel, rule.riskLevel)
                                                      ELSE riskLevel,
                            trustLevel,
                            Coalesce(escalationLabel,
                                Coalesce(rule.label,
                                    "matched rule: " \o Coalesce(rule.id, Coalesce(rule.tool, "*")))),
                            Coalesce(rule.label, rule.id))
        ELSE IF trustLevel = "owner" /\ ~riskAtLeast(riskLevel, "critical")
        THEN RuleResult("allow", riskLevel, trustLevel, "owner bypass (risk below critical)", Undef)
        ELSE IF riskAtLeast(riskLevel, adjusted)
        THEN RuleResult("escalate", riskLevel, trustLevel,
                        Coalesce(escalationLabel,
                                 "risk " \o riskLevel \o " >= threshold " \o adjusted), Undef)
        ELSE RuleResult("allow", riskLevel, trustLevel,
                        "risk " \o riskLevel \o " < threshold " \o adjusted, Undef)

\* config.agents?.[agentId]
AgentConfig(config, agentId) ==
    IF agentId # Undef /\ agentId \in DOMAIN config.agents
    THEN Some(config.agents[agentId]) ELSE None

effectiveThreshold(config, agentId) ==
    IF AgentConfig(config, agentId) # None /\ AgentConfig(config, agentId)[1].approvalThreshold # Undef
    THEN AgentConfig(config, agentId)[1].approvalThreshold
    ELSE Coalesce(config.approvalThreshold, "high")

\* { ...config.budget, ...config.agents[agentId].budget }: the fields the agent's
\* budget carries replace those of the global one
effectiveBudget(config, agentId) ==
    IF AgentConfig(config, agentId) # None /\ AgentConfig(config, agentId)[1].budget # None
    THEN IF config.budget = None THEN AgentConfig(config, agentId)[1].budget
         ELSE Some([f \in DOMAIN config.budget[1] |->
                  IF f \in DOMAIN AgentConfig(config, agentId)[1].budget[1]
                  THEN AgentConfig(config, agentId)[1].budget[1][f] ELSE config.budget[1][f]])
    ELSE config.budget

(***************************************************************************)
(* budget.ts. Money is counted in cents: 0.01 USD is 1.                    *)
(***************************************************************************)
AgentIds == {"a1", "a2"}

DefaultToolCost == 1
RetentionDays == 7

NoAgentCosts == [a \in AgentIds |-> 0]

\* createBudgetTracker(budgetPath): the closure variables of a new tracker
NewTracker == [sessionTotal |-> 0, sessionCosts |-> NoAgentCosts, dailyCache |-> None]

DailyEntry(date, totalCost, perAgent) ==
    [date |-> date, totalCost |-> totalCost, perAgent |-> perAgent]

\* config is the optional budget config (None or Some)
resolveToolCost(toolName, config) ==
    IF config # None /\ toolName \in DOMAIN config[1].perToolCosts
    THEN config[1].perToolCosts[toolName]
    ELSE IF config # None /\ config[1].defaultToolCost # NoNumber
    THEN config[1].defaultToolCost
    ELSE DefaultToolCost

\* what loadDaily returns, and leaves in dailyCache
loadDaily ==
    IF dailyCache # None /\ dailyCache[1].date = today THEN dailyCache[1]
    ELSE IF cfg.budgetPath /\ file.kind = "ok" /\ \E d \in ledger : d.date = today
    THEN CHOOSE d \in ledger : d.date = today
    ELSE DailyEntry(today, 0, NoAgentCosts)

\* the budget file as a read finds it: "ok" (a { daily: [...] } object), "missing",
\* "corrupt" (no JSON) or "nodaily" (JSON without a daily array, such as {})
FileKinds == {"ok", "missing", "corrupt", "nodaily"}
FileState(kind, writable) == [kind |-> kind, writable |-> writable]

\* saveDaily: data.daily after the read (a missing or corrupt file gives [])
readDaily == IF file.kind = "ok" THEN ledger ELSE {}

\* saveDaily: data.daily.filter(...) throws a TypeError when data has no daily array
saveDailyThrows == cfg.budgetPath /\ file.kind = "nodaily"

\* saveDaily gets as far as writeFileSync and the write succeeds
saveDailyWrites == cfg.budgetPath /\ ~saveDailyThrows /\ file.writable

\* a saveDaily that keeps every entry of another date
savedLedgerKeepsAll(entry) ==
    IF ~saveDailyWrites THEN ledger
    ELSE {d \in readDaily : d.date # entry.date} \cup {entry}

\* the daily array of the file after saveDaily(entry)
savedLedger(entry) ==
    IF ~saveDailyWrites THEN ledger
    ELSE {d \in readDaily : d.date >= today - RetentionDays /\ d.date # entry.date} \cup {entry}

\* the file after saveDaily
savedFile == IF saveDailyWrites THEN FileState("ok", file.writable) ELSE file

getSessionCost(agentId) == IF agentId # Undef THEN sessionCosts[agentId] ELSE sessionTotal

getDailyCost(agentId) ==
    IF agentId # Undef THEN loadDaily.perAgent[agentId] ELSE loadDaily.totalCost

\* a recordCost that stores the cost of the call in place of the running totals
recordCostOverwrites(cost, agentId) ==
    LET stored == DailyEntry(today, cost, NoAgentCosts)
    IN  /\ sessionTotal' = cost
        /\ sessionCosts' = NoAgentCosts
        /\ dailyCache' = Some(stored)
        /\ ledger' = savedLedger(stored)
        /\ file' = savedFile
        /\ UNCHANGED <<today, peer>>

\* tracker.recordCost(toolName, cost, agentId)
recordCost(cost, agentId) ==
    LET daily == loadDaily
        stored == DailyEntry(daily.date, daily.totalCost + cost,
                     IF agentId # Undef
                     THEN [daily.perAgent EXCEPT ![agentId] = @ + cost]
                     ELSE daily.perAgent)
    IN  /\ sessionTotal' = sessionTotal + cost
        /\ sessionCosts' = IF agentId # Undef
                           THEN [sessionCosts EXCEPT ![agentId] = @ + cost]
                           ELSE sessionCosts
        /\ dailyCache' = Some(stored)
        /\ ledger' = savedLedger(stored)
        /\ file' = savedFile
        /\ UNCHANGED <<today, peer>>

recordToolCost(toolName, budgetConfig, agentId) ==
    recordCost(resolveToolCost(toolName, budgetConfig), agentId)

BudgetResult(exceeded, action, reason) ==
    [exceeded |-> exceeded, action |-> action, reason |-> reason]

SessionExceeded(toolName, budgetConfig, agentId) ==
    /\ budgetConfig[1].sessionLimit # NoNumber
    /\ getSessionCost(agentId) + resolveToolCost(toolName, budgetConfig)
          > budgetConfig[1].sessionLimit

DailyExceeded(toolName, budgetConfig, agentId) ==
    /\ budgetConfig[1].dailyLimit # NoNumber
    /\ getDailyCost(agentId) + resolveToolCost(toolName, budgetConfig)
          > budgetConfig[1].dailyLimit

checkBudget(toolName, budgetConfig, agentId) ==
    IF budgetConfig = None \/ ~budgetConfig[1].enabled THEN BudgetResult(FALSE, Undef, Undef)
    ELSE IF SessionExceeded(toolName, budgetConfig, agentId)
    THEN BudgetResult(TRUE, Coalesce(budgetConfig[1].onExceeded, "deny"),
                      "Session budget exceeded")
    ELSE IF DailyExceeded(toolName, budgetConfig, agentId)
    THEN BudgetResult(TRUE, Coalesce(budgetConfig[1].onExceeded, "deny"),
                      "Daily budget exceeded")
    ELSE BudgetResult(FALSE, Undef, Undef)

\* checkBudget reads the daily total (and so runs loadDaily) when it gets that far
checkBudgetLoads(toolName, budgetConfig, agentId) ==
    /\ budgetConfig # None
    /\ budgetConfig[1].enabled
    /\ ~SessionExceeded(toolName, budgetConfig, agentId)
    /\ budgetConfig[1].dailyLimit # NoNumber

\* the tracker after a handler step that records nothing
trackerRead(loads) ==
    /\ dailyCache' = IF loads THEN Some(loadDaily) ELSE dailyCache
    /\ UNCHANGED <<sessionTotal, sessionCosts, ledger, file, today, peer>>

(***************************************************************************)
(* llm-evaluator.ts. An adjudicator answer is a sequence of tokens:        *)
(*   "{" "}"     braces (a "{" inside an object opens a nested member)     *)
(*   D_allow D_deny D_escalate   "decision":"allow" ...                    *)
(*   D_ALLOW     "decision":" ALLOW "  (needs toLowerCase().trim())        *)
(*   D_maybe     "decision":"maybe"    (a string outside the three)        *)
(*   D_num       "decision":5          (truthy, not a string)              *)
(*   prose       text without braces;  null   the JSON text null           *)
(***************************************************************************)
DecisionStrings == {"D_allow", "D_ALLOW", "D_deny", "D_escalate", "D_maybe"}
TextTokens == {"{", "}", "prose", "null", "D_num"} \cup DecisionStrings
LLMDecisions == {"allow", "deny", "escalate"}

\* decision.toLowerCase().trim()
NormalizeDecision(tok) ==
    CASE tok \in {"D_allow", "D_ALLOW"} -> "allow"
      [] tok = "D_deny" -> "deny"
      [] tok = "D_escalate" -> "escalate"
      [] OTHER -> "maybe"

LLMResult(decision, reason) == [decision |-> decision, reason |-> reason]

\* nesting depth after the first i tokens
RECURSIVE Depth(_, _)
Depth(t, i) ==
    IF i = 0 THEN 0
    ELSE Depth(t, i - 1) + (IF t[i] = "{" THEN 1 ELSE IF t[i] = "}" THEN -1 ELSE 0)

\* JSON.parse(t) returns an object
IsJsonObject(t) ==
    /\ Len(t) >= 2
    /\ t[1] = "{"
    /\ \A i \in 1..Len(t) : t[i] \notin {"prose", "null"}
    /\ \A i \in 1..(Len(t) - 1) : Depth(t, i) > 0
    /\ Depth(t, Len(t)) = 0

\* JSON.parse(t) does not throw
JsonParses(t) == t = <<"null">> \/ IsJsonObject(t)

\* parsed.decision of an object: its last top-level "decision" member, or Undef
DecisionMember(t) ==
    LET at == {i \in 1..Len(t) : t[i] \in DecisionStrings \cup {"D_num"} /\ Depth(t, i) = 1}
    IN  IF at = {} THEN Undef ELSE t[CHOOSE i \in at : \A k \in at : k <= i]

\* the start of the match of /\{[^}]*"decision"\s*:\s*"[^"]+"/, or 0
MatchStart(t) ==
    LET starts == {i \in 1..Len(t) :
                     /\ t[i] = "{"
                     /\ \E j \in (i + 1)..Len(t) :
                           /\ t[j] \in DecisionStrings
                           /\ \A k \in (i + 1)..(j - 1) : t[k] # "}"}
    IN  IF starts = {} THEN 0 ELSE CHOOSE i \in starts : \A k \in starts : i <= k

\* the index of the brace that closes the one at start, or 0
ClosingBrace(t, start) ==
    LET closes == {e \in start..Len(t) : Depth(t, e) = Depth(t, start - 1)}
    IN  IF closes = {} THEN 0 ELSE CHOOSE e \in closes : \A k \in closes : e <= k

CouldNotParse == LLMResult("escalate", "Could not parse LLM response")

\* the catch branch of parseDecision: the first {...} span with a "decision" key
extractDecision(t) ==
    IF MatchStart(t) = 0 \/ ClosingBrace(t, MatchStart(t)) = 0 THEN CouldNotParse
    ELSE LET slice == SubSeq(t, MatchStart(t), ClosingBrace(t, MatchStart(t)))
             d == DecisionMember(slice)
         IN  IF IsJsonObject(slice) /\ d \in DecisionStrings
                                   /\ NormalizeDecision(d) \in LLMDecisions
             THEN LLMResult(NormalizeDecision(d), "reason of the answer")
             ELSE CouldNotParse

\* a parser that takes any answer it cannot read for an allow (fails open)
parseDecisionFailOpen(t) ==
    IF IsJsonObject(t) /\ DecisionMember(t) \in DecisionStrings
                      /\ NormalizeDecision(DecisionMember(t)) \in LLMDecisions
    THEN LLMResult(NormalizeDecision(DecisionMember(t)), "reason of the answer")
    ELSE LLMResult("allow", "Could not parse LLM response")

parseDecision(t) ==
    IF ~JsonParses(t) THEN extractDecision(t)
    ELSE IF t = <<"null">> THEN extractDecision(t)              \* TypeError: parsed is null
    ELSE IF DecisionMember(t) = Undef THEN CouldNotParse
    ELSE IF DecisionMember(t) = "D_num" THEN extractDecision(t) \* TypeError: toLowerCase
    ELSE IF NormalizeDecision(DecisionMember(t)) \in LLMDecisions
    THEN LLMResult(NormalizeDecision(DecisionMember(t)), "reason of the answer")
    ELSE CouldNotParse

\* what the race of callLLM against the timer settled with
LLMText(t) == [kind |-> "text", text |-> t]
LLMError == [kind |-> "error", text |-> <<>>]
LLMTimeout == [kind |-> "timeout", text |-> <<>>]

\* the try / catch of evaluateWithLLM around the race and the parse
evaluateWithLLM(settled) ==
    IF settled.kind = "text" THEN parseDecision(settled.text)
    ELSE IF settled.kind = "timeout"
    THEN LLMResult("escalate", "LLM evaluation failed: Error: LLM evaluation timed out")
    ELSE LLMResult("escalate", "LLM evaluation failed: Error")

TextsOfLen(n) == [1..n -> TextTokens]

Texts == UNION {TextsOfLen(n) : n \in 0..MaxTextLen}

(***************************************************************************)
(* hook.ts: createGuardianHook. One record of evals is one invocation of   *)
(* handler; steps lists, in the order they ran, the stages it entered.     *)
(***************************************************************************)
EvalIds == 1..MaxEvals

HumanDecisions == {"allow-once", "allow-session", "allow-always", "deny", Null}

IdleEval ==
    [pc |-> "idle", call |-> Undef, agentId |-> Undef, trustLevel |-> Undef, key |-> Undef,
     steps |-> <<>>, block |-> FALSE, blockReason |-> Undef, ruleResult |-> Undef,
     llmResult |-> Undef, request |-> Undef, decision |-> Undef]

\* return { block: true, blockReason }
Blocked(ev, reason) == [ev EXCEPT !.pc = "done", !.block = TRUE, !.blockReason = reason]

\* return (no block: the call proceeds)
Proceeds(ev) == [ev EXCEPT !.pc = "done", !.block = FALSE]

\* a trace that lists the latest stage first
EnteredFirst(ev, stage) == [ev EXCEPT !.steps = <<stage>> \o @]

\* the invocation enters a stage of the handler
Entered(ev, stage) == [ev EXCEPT !.steps = Append(@, stage)]

\* what one synchronous stretch of the handler did: the invocation's new record,
\* whether it recorded the tool's cost, whether it made the tracker load the day
Ran(ev, recorded, loads) == [ev |-> ev, recorded |-> recorded, loads |-> loads]

\* a request for approval that is refused while another invocation waits for the
\* human about the same key
AskHumanOnce(ev, riskLevel, trustLevel, reason) ==
    IF \E d \in EvalIds : evals[d].pc = "human" /\ evals[d].key = ev.key
    THEN Blocked(Entered(ev, "human"), "approval already pending")
    ELSE [Entered(ev, "human") EXCEPT !.pc = "human",
             !.request = [riskLevel |-> riskLevel, trustLevel |-> trustLevel, reason |-> reason]]

\* await params.requestHumanApproval({...}): the invocation suspends
AskHuman(ev, riskLevel, trustLevel, reason) ==
    [Entered(ev, "human") EXCEPT !.pc = "human",
        !.request = [riskLevel |-> riskLevel, trustLevel |-> trustLevel, reason |-> reason]]

\* Tier 3 answers with an allow even when nobody can be asked (fails open)
tier3FailOpen(ev) ==
    IF cfg.hasHuman
    THEN AskHuman(ev, ev.ruleResult.riskLevel, ev.ruleResult.trustLevel, ev.ruleResult.reason)
    ELSE Proceeds(ev)

\* Tier 3: Human escalation
tier3(ev) ==
    IF cfg.hasHuman
    THEN AskHuman(ev, ev.ruleResult.riskLevel, ev.ruleResult.trustLevel, ev.ruleResult.reason)
    ELSE Blocked(ev, Coalesce(ev.ruleResult.reason,
                              "Escalated but no human approval handler configured"))

\* a budget gate that asks the human with the risk left at high
budgetExceededAsksHigh(ev, budgetResult) ==
    IF budgetResult.action = "deny"
    THEN Blocked(ev, Coalesce(budgetResult.reason, "Budget exceeded"))
    ELSE IF cfg.hasHuman
    THEN AskHuman(ev, "high", ev.trustLevel, Coalesce(budgetResult.reason, "Budget exceeded"))
    ELSE Blocked(ev, Coalesce(budgetResult.reason, "Budget exceeded"))

\* the budget gate when checkBudget reported exceeded
budgetExceeded(ev, budgetResult) ==
    IF budgetResult.action = "deny"
    THEN Blocked(ev, Coalesce(budgetResult.reason, "Budget exceeded"))
    ELSE IF cfg.hasHuman
    THEN AskHuman(ev, "critical", ev.trustLevel, Coalesce(budgetResult.reason, "Budget exceeded"))
    ELSE Blocked(ev, Coalesce(budgetResult.reason, "Budget exceeded"))

\* Tier 1 and the start of Tier 2
tier1(ev, loads) ==
    LET ruleResult == evaluateRules(ev.call.toolName, ev.call.params, cfg.rules,
                          IF AgentConfig(cfg, ev.agentId) # None
                          THEN AgentConfig(cfg, ev.agentId)[1].rules ELSE <<>>,
                          effectiveThreshold(cfg, ev.agentId), ev.trustLevel)
        ev1 == [Entered(ev, "rules") EXCEPT !.ruleResult = ruleResult]
    IN  IF ruleResult.decision = "allow" THEN Ran(Proceeds(ev1), cfg.hasTracker, loads)
        ELSE IF ruleResult.decision = "deny"
        THEN Ran(Blocked(ev1, Coalesce(ruleResult.reason, "Denied by guardian rule")), FALSE, loads)
        ELSE IF cfg.hasLLM
        THEN Ran([Entered(ev1, "llm") EXCEPT !.pc = "llm"], FALSE, loads)
        ELSE Ran(tier3(ev1), FALSE, loads)

\* the budget gate, then the tiers
budgetGate(ev) ==
    LET budgetConfig == effectiveBudget(cfg, ev.agentId)
        budgetResult == checkBudget(ev.call.toolName, budgetConfig, ev.agentId)
        loads == checkBudgetLoads(ev.call.toolName, budgetConfig, ev.agentId)
    IN  IF ~cfg.hasTracker THEN tier1(ev, FALSE)
        ELSE IF budgetResult.exceeded
        THEN Ran(budgetExceeded(Entered(ev, "budget"), budgetResult), FALSE, loads)
        ELSE tier1(Entered(ev, "budget"), loads)

\* the handler from its entry to its first return or await
handlerStart(call, agentId, ctxOwner) ==
    LET key == cacheKey(call.toolName, call.params)
        ev == [IdleEval EXCEPT !.call = call, !.agentId = Coalesce(agentId, cfg.agentId),
                  !.key = key,
                  !.trustLevel = resolveTrustLevel(
                                     IF ctxOwner # Undef THEN ctxOwner = "true"
                                                         ELSE cfg.senderIsOwner,
                                     cfg.isSubagent, cfg.isAllowed)]
    IN  IF ~cfg.enabled THEN Ran(Proceeds(ev), FALSE, FALSE)
        ELSE IF key \in alwaysAllowCache \/ key \in taskAllowCache
        THEN Ran(Proceeds(Entered(ev, "cache")), cfg.hasTracker, FALSE)
        ELSE budgetGate(Entered(ev, "cache"))

\* a handler that asks the adjudicator again when its answer is escalate
handlerAsksAgain(ev, llmResult) ==
    LET ev1 == [ev EXCEPT !.llmResult = llmResult]
    IN  IF llmResult.decision = "allow" THEN Ran(Proceeds(ev1), cfg.hasTracker, FALSE)
        ELSE IF llmResult.decision = "deny"
        THEN Ran(Blocked(ev1, Coalesce(llmResult.reason, "Denied by guardian LLM")), FALSE, FALSE)
        ELSE IF Len(ev1.steps) < 5
        THEN Ran([Entered(ev1, "llm") EXCEPT !.pc = "llm"], FALSE, FALSE)
        ELSE Ran(tier3(ev1), FALSE, FALSE)

\* the handler after evaluateWithLLM returned
handlerAfterLLM(ev, llmResult) ==
    LET ev1 == [ev EXCEPT !.llmResult = llmResult]
    IN  IF llmResult.decision = "allow" THEN Ran(Proceeds(ev1), cfg.hasTracker, FALSE)
        ELSE IF llmResult.decision = "deny"
        THEN Ran(Blocked(ev1, Coalesce(llmResult.reason, "Denied by guardian LLM")), FALSE, FALSE)
        ELSE Ran(tier3(ev1), FALSE, FALSE)

\* a resolveDecision that remembers nothing
resolveDecisionNoCache(ev, decision) ==
    [ev |-> IF decision = Null \/ decision = "deny"
            THEN Blocked([ev EXCEPT !.decision = decision], "Denied by operator")
            ELSE Proceeds([ev EXCEPT !.decision = decision]),
     task |-> taskAllowCache,
     always |-> alwaysAllowCache]

\* a resolveDecision that remembers every allow for the session
resolveDecisionCachesOnce(ev, decision) ==
    [ev |-> IF decision = Null \/ decision = "deny"
            THEN Blocked([ev EXCEPT !.decision = decision], "Denied by operator")
            ELSE Proceeds([ev EXCEPT !.decision = decision]),
     task |-> IF decision \in {"allow-once", "allow-session"} THEN taskAllowCache \cup {ev.key}
              ELSE taskAllowCache,
     always |-> IF decision = "allow-always" THEN alwaysAllowCache \cup {ev.key}
                ELSE alwaysAllowCache]

\* a resolveDecision that takes the two caches for one another
resolveDecisionSwapsCaches(ev, decision) ==
    [ev |-> IF decision = Null \/ decision = "deny"
            THEN Blocked([ev EXCEPT !.decision = decision], "Denied by operator")
            ELSE Proceeds([ev EXCEPT !.decision = decision]),
     task |-> IF decision = "allow-always" THEN taskAllowCache \cup {ev.key}
              ELSE taskAllowCache,
     always |-> IF decision = "allow-session" THEN alwaysAllowCache \cup {ev.key}
                ELSE alwaysAllowCache]

\* resolveDecision(decision, key): the result, and the two caches after it
resolveDecision(ev, decision) ==
    [ev |-> IF decision = Null \/ decision = "deny"
            THEN Blocked([ev EXCEPT !.decision = decision], "Denied by operator")
            ELSE Proceeds([ev EXCEPT !.decision = decision]),
     task |-> IF decision = "allow-session" THEN taskAllowCache \cup {ev.key}
              ELSE taskAllowCache,
     always |-> IF decision = "allow-always" THEN alwaysAllowCache \cup {ev.key}
                ELSE alwaysAllowCache]

\* a tracker charged for every stretch of an invocation, whatever its result
TrackerAlwaysRecords(ran) ==
    recordToolCost(ran.ev.call.toolName, effectiveBudget(cfg, ran.ev.agentId), ran.ev.agentId)

\* the tracker after a stretch of an invocation
TrackerAfter(ran) ==
    IF ran.recorded
    THEN recordToolCost(ran.ev.call.toolName, effectiveBudget(cfg, ran.ev.agentId), ran.ev.agentId)
    ELSE trackerRead(ran.loads)

(***************************************************************************)
(* The instances the hook is checked on                                    *)
(***************************************************************************)
NoParamMatches == [k \in {} |-> ""]

DenyRm == Rule(Undef, "exec", ("command" :> "rm"), Undef, Undef, "deny", "rm is forbidden")
AllowExec == Rule("allow-exec", "exec", NoParamMatches, Undef, Undef, "allow", Undef)

\* a deny rule whose label is the empty string
DenyRead == Rule("no-read", "read", NoParamMatches, Undef, Undef, "deny", "")

RuleLists == {<<>>, <<DenyRm>>}

Budget(enabled, sessionLimit, dailyLimit, onExceeded) ==
    [enabled |-> enabled, sessionLimit |-> sessionLimit, dailyLimit |-> dailyLimit,
     perToolCosts |-> ("read" :> 2), defaultToolCost |-> NoNumber, onExceeded |-> onExceeded]

Budgets == { Some(Budget(TRUE, 1, NoNumber, "deny")), Some(Budget(TRUE, 1, NoNumber, "escalate")),
             Some(Budget(TRUE, NoNumber, 2, Undef)) }

\* agent a2 has rules of its own; a1, the agent of the instance, has no entry in
\* config.agents, and the context of a call names no other agent or sender
AgentOverrides == ("a2" :> [approvalThreshold |-> Undef, rules |-> <<AllowExec>>, budget |-> None])

Config(enabled, rules, budget, hasTracker, hasLLM, hasHuman) ==
    [enabled |-> enabled, approvalThreshold |-> "high", rules |-> rules,
     agents |-> AgentOverrides, budget |-> budget, hasTracker |-> hasTracker,
     budgetPath |-> TRUE, hasLLM |-> hasLLM, hasHuman |-> hasHuman, agentId |-> "a1",
     senderIsOwner |-> FALSE, isSubagent |-> FALSE, isAllowed |-> TRUE]

Configs ==
    { Config(TRUE, <<DenyRm>>, b, TRUE, l, h) : b \in Budgets, l \in BOOLEAN, h \in BOOLEAN }
    \cup { Config(TRUE, r, None, FALSE, l, h) : r \in RuleLists, l \in BOOLEAN, h \in BOOLEAN }
    \cup { Config(FALSE, <<DenyRm>>, None, FALSE, TRUE, TRUE) }
    \cup { Config(TRUE, <<DenyRead>>, None, FALSE, FALSE, TRUE) }

\* the answers the adjudicator gives the hook
HookAnswers ==
    { LLMTimeout, LLMText(<<"{", "D_allow", "}">>), LLMText(<<"prose", "{", "D_deny", "}">>) }

\* the ledger file at start: an earlier process spent 1 cent on day 1
StoredLedger == {DailyEntry(1, 1, NoAgentCosts)}

\* lastOp when the last manager step was not a call of resolve
NoResolve == [op |-> "none", id |-> Undef, ret |-> FALSE]

\* createGuardianApprovalForwarder(): nothing handed over, nothing pending
NewForwarder == [entries |-> <<>>, pending |-> <<>>]

ApprovalIdle ==
    /\ pending = <<>>
    /\ regs = <<>>
    /\ now = 0
    /\ lastOp = NoResolve
    /\ gateway = <<>>
    /\ forwarder = NewForwarder

\* no exported function has been called
NoProbe == [op |-> "none", agentId |-> Undef, arg |-> Undef, ret |-> Undef, threw |-> FALSE]

LLMIdle ==
    llm = [pc |-> "idle", answer |-> LLMTimeout, delivered |-> FALSE, timer |-> "none",
           result |-> None]

Init ==
    /\ cfg \in Configs
    /\ evals = [e \in EvalIds |-> IdleEval]
    /\ taskAllowCache = {}
    /\ alwaysAllowCache = {}
    /\ sessionTotal = 0
    /\ sessionCosts = NoAgentCosts
    /\ dailyCache = None
    /\ ledger = StoredLedger
    /\ file = FileState("ok", TRUE)
    /\ today = 1
    /\ peer = NewTracker
    /\ ApprovalIdle
    /\ LLMIdle
    /\ probe = NoProbe

\* handler(event, ctx) is called and runs to its first return or await
Start(e, call, agentId, ctxOwner) ==
    /\ evals[e].pc = "idle"
    /\ \A d \in EvalIds : d < e => evals[d].pc # "idle"
    /\ LET ran == handlerStart(call, agentId, ctxOwner)
       IN  /\ evals' = [evals EXCEPT ![e] = ran.ev]
           /\ TrackerAfter(ran)
    /\ UNCHANGED <<cfg, taskAllowCache, alwaysAllowCache>>

\* evaluateWithLLM returns to the handler
LLMReturn(e, settled) ==
    /\ evals[e].pc = "llm"
    /\ LET ran == handlerAfterLLM(evals[e], evaluateWithLLM(settled))
       IN  /\ evals' = [evals EXCEPT ![e] = ran.ev]
           /\ TrackerAfter(ran)
    /\ UNCHANGED <<cfg, taskAllowCache, alwaysAllowCache>>

\* requestHumanApproval returns a decision, or null on timeout
HumanReturn(e, decision) ==
    /\ evals[e].pc = "human"
    /\ LET res == resolveDecision(evals[e], decision)
       IN  /\ evals' = [evals EXCEPT ![e] = res.ev]
           /\ taskAllowCache' = res.task
           /\ alwaysAllowCache' = res.always
    /\ UNCHANGED <<cfg, budgetVars>>

\* midnight (UTC) passes
DayRollover ==
    /\ today < MaxDay
    /\ today' = today + 1
    /\ UNCHANGED <<hookVars, sessionTotal, sessionCosts, dailyCache, ledger, file, peer>>

Next ==
    \/ \E e \in EvalIds, call \in HookCalls :
          Start(e, call, Undef, Undef) /\ UNCHANGED <<approvalVars, llm, probe>>
    \/ \E e \in EvalIds, settled \in HookAnswers :
          LLMReturn(e, settled) /\ UNCHANGED <<approvalVars, llm, probe>>
    \/ \E e \in EvalIds, decision \in HumanDecisions :
          HumanReturn(e, decision) /\ UNCHANGED <<approvalVars, llm, probe>>
    \/ DayRollover /\ UNCHANGED <<approvalVars, llm, probe>>

Spec == Init /\ [][Next]_vars

(***************************************************************************)
(* Properties of the hook (checked on Spec)                                *)
(***************************************************************************)
\* invocation ev has entered the stage
Has(ev, stage) == \E i \in 1..Len(ev.steps) : ev.steps[i] = stage

\* the step is one of invocation e
StepOf(e) == evals[e].pc # "done" /\ evals'[e].pc # evals[e].pc

\* invocation ev came to Tier 3: the rules escalated and the adjudicator, if there is
\* one, escalated too; or the budget is exceeded and its policy is to escalate
ReachedTier3(ev) ==
    \/ /\ Has(ev, "rules")
       /\ ev.ruleResult.decision = "escalate"
       /\ Has(ev, "llm") => (ev.pc # "llm" /\ ev.llmResult.decision = "escalate")
    \/ /\ ~Has(ev, "rules")
       /\ Has(ev, "budget")
       /\ effectiveBudget(cfg, ev.agentId)[1].onExceeded = "escalate"

\* C2: an evaluation that came to Tier 3 while no human-approval function is
\* configured has returned block = true with a reason
C2_NoHumanBlocks ==
    \A e \in EvalIds :
       (evals[e].pc = "done" /\ ~cfg.hasHuman /\ ReachedTier3(evals[e]))
          => evals[e].block /\ evals[e].blockReason # Undef

\* the adjudicator escalated, nobody can be asked, and the call is blocked
C2_Witness ==
    \E e \in EvalIds :
       /\ evals[e].pc = "done" /\ ~cfg.hasHuman /\ Has(evals[e], "llm")
       /\ evals[e].llmResult.decision = "escalate"
       /\ evals[e].block

\* C4 as the specification states it: a call is answered from the caches only if a
\* human allowed, for the session or for always, a call of the same tool with the
\* same parameters
C4_AsClaimed ==
    \A e \in EvalIds :
       (evals[e].pc = "done" /\ evals[e].steps = <<"cache">>)
          => \E d \in EvalIds :
                /\ d # e
                /\ evals[d].decision \in {"allow-session", "allow-always"}
                /\ evals[d].call = evals[e].call

\* C7: when the human decision arrives, deny and null block with "Denied by
\* operator" and leave both caches alone; allow-once proceeds and leaves both caches
\* alone; allow-session proceeds and adds the key to the session cache only;
\* allow-always proceeds and adds the key to the permanent cache only
C7_HumanDecision ==
    [][ \A e \in EvalIds :
           (evals[e].pc = "human" /\ evals'[e].pc = "done") =>
              LET d == evals'[e].decision
                  k == evals[e].key
              IN  /\ d \in HumanDecisions
                  /\ evals'[e].block = (d \in {"deny", Null})
                  /\ d \in {"deny", Null} => evals'[e].blockReason = "Denied by operator"
                  /\ taskAllowCache' = IF d = "allow-session" THEN taskAllowCache \cup {k}
                                       ELSE taskAllowCache
                  /\ alwaysAllowCache' = IF d = "allow-always" THEN alwaysAllowCache \cup {k}
                                         ELSE alwaysAllowCache ]_vars

\* one call was allowed for the session and another, not yet cached, allowed once
C7_Witness ==
    \E e, d \in EvalIds :
       /\ evals[e].decision = "allow-session"
       /\ evals[e].key \in taskAllowCache /\ evals[e].key \notin alwaysAllowCache
       /\ evals[d].decision = "allow-once"
       /\ evals[d].key \notin taskAllowCache \cup alwaysAllowCache

\* the budget totals: the session total, the session cost of each agent, today's
\* total and per-agent costs, and the ledger file
Totals == <<sessionTotal, sessionCosts, loadDaily.totalCost, loadDaily.perAgent, ledger>>

\* C8: a step of an evaluation that does not end in letting the call proceed (it
\* suspends for the adjudicator or the human, or returns block = true) changes no
\* budget total, so an evaluation that ends blocked has changed none
C8_BlockedChangesNoTotal ==
    [][ \A e \in EvalIds :
           (StepOf(e) /\ ~(evals'[e].pc = "done" /\ ~evals'[e].block))
              => Totals' = Totals ]_vars

\* a call was blocked after the budget check while the session had costs on record
C8_Witness ==
    \E e \in EvalIds :
       /\ evals[e].pc = "done" /\ evals[e].block /\ Has(evals[e], "budget")
       /\ sessionTotal > 0

\* C9: once a human has allowed a call for the session or for always, every later
\* call of the same tool with the same parameters is answered from the cache: it
\* enters no other stage, proceeds, and its cost is still recorded when a tracker is
\* configured
C9_CachedCallSkipsTiers ==
    [][ \A e, d \in EvalIds :
           ( /\ evals[d].pc = "done"
             /\ evals[d].decision \in {"allow-session", "allow-always"}
             /\ evals[e].pc = "idle" /\ evals'[e].pc # "idle"
             /\ evals'[e].call = evals[d].call )
           => /\ evals'[e].steps = <<"cache">>
              /\ evals'[e].pc = "done" /\ ~evals'[e].block
              /\ cfg.hasTracker =>
                    sessionTotal' = sessionTotal +
                       resolveToolCost(evals'[e].call.toolName,
                                       effectiveBudget(cfg, evals'[e].agentId)) ]_vars

\* a call allowed for always was made again, answered from the cache and charged
C9_Witness ==
    \E e, d \in EvalIds :
       /\ d # e
       /\ evals[d].decision = "allow-always"
       /\ evals[e].pc = "done" /\ evals[e].steps = <<"cache">>
       /\ evals[e].call = evals[d].call
       /\ sessionTotal > 0

StageOrder == <<"cache", "budget", "rules", "llm", "human">>
StageIndex(stage) == CHOOSE i \in 1..Len(StageOrder) : StageOrder[i] = stage

\* the stages of an invocation are in the order of StageOrder, none twice, the cache
\* lookup first, and a suspended invocation is in the stage it entered last
StagesInOrder(ev) ==
    /\ \A i, j \in 1..Len(ev.steps) :
          i < j => StageIndex(ev.steps[i]) < StageIndex(ev.steps[j])
    /\ Len(ev.steps) > 0 => ev.steps[1] = "cache"
    /\ ev.pc \in {"llm", "human"} => ev.steps[Len(ev.steps)] = ev.pc
    /\ ev.pc = "idle" => ev.steps = <<>>

\* C10: every evaluation enters the stages in the order cache, budget, rules,
\* adjudicator, human, none of them twice, and enters no stage and changes no result
\* after it has returned
C10_StagesInOrder ==
    /\ [](\A e \in EvalIds : StagesInOrder(evals[e]))
    /\ [][ \A e \in EvalIds :
              evals[e].pc = "done" =>
                 /\ evals'[e].pc = "done"
                 /\ evals'[e].steps = evals[e].steps
                 /\ evals'[e].block = evals[e].block ]_vars

\* an evaluation went through all five stages and returned
C10_Witness ==
    \E e \in EvalIds : evals[e].pc = "done" /\ evals[e].steps = StageOrder

\* what checkBudget reports, now, for the call invocation e is being started with
BudgetNow(e) ==
    checkBudget(evals'[e].call.toolName, effectiveBudget(cfg, evals'[e].agentId),
                evals'[e].agentId)

\* C11: when a call that is no cache hit is started while the budget check reports
\* exceeded, then with action deny the handler returns block = true having entered
\* only the cache and budget stages, and with action escalate it enters neither the
\* rules nor the adjudicator and asks the human with risk level critical (it blocks
\* when no human-approval function is configured); no later step of the invocation
\* enters the rules or the adjudicator
C11_BudgetGateShortCircuits ==
    /\ [][ \A e \in EvalIds :
              ( /\ evals[e].pc = "idle" /\ evals'[e].pc # "idle"
                /\ cfg.enabled /\ cfg.hasTracker
                /\ evals'[e].key \notin taskAllowCache \cup alwaysAllowCache
                /\ BudgetNow(e).exceeded )
              => /\ BudgetNow(e).action = "deny" =>
                      /\ evals'[e].pc = "done" /\ evals'[e].block
                      /\ evals'[e].steps = <<"cache", "budget">>
                 /\ (BudgetNow(e).action = "escalate" /\ cfg.hasHuman) =>
                      /\ evals'[e].pc = "human"
                      /\ evals'[e].steps = <<"cache", "budget", "human">>
                      /\ evals'[e].request.riskLevel = "critical"
                 /\ (BudgetNow(e).action = "escalate" /\ ~cfg.hasHuman) =>
                      /\ evals'[e].pc = "done" /\ evals'[e].block
                      /\ evals'[e].steps = <<"cache", "budget">> ]_vars
    /\ [][ \A e \in EvalIds :
              (evals[e].pc = "human" /\ ~Has(evals[e], "rules"))
                 => ~Has(evals'[e], "rules") /\ ~Has(evals'[e], "llm") ]_vars

\* the budget was exceeded with action escalate: the human is asked about a
\* critical call that neither the rules nor the adjudicator have seen
C11_Witness ==
    \E e \in EvalIds :
       /\ evals[e].pc = "human"
       /\ evals[e].steps = <<"cache", "budget", "human">>
       /\ evals[e].request.riskLevel = "critical"

\* another invocation waits for the human about the key of invocation e
OtherWaits(e) ==
    \E d \in EvalIds \ {e} : evals[d].pc = "human" /\ evals[d].key = evals'[e].key

\* the step leaves invocation d where it is
Unmoved(d) ==
    /\ evals'[d].pc = evals[d].pc
    /\ evals'[d].steps = evals[d].steps
    /\ evals'[d].block = evals[d].block
    /\ evals'[d].decision = evals[d].decision

\* C22: an invocation that comes to Tier 3 while another one waits for the human
\* about the same key sends a request of its own and waits for it; when an
\* invocation's request returns, its result follows from the decision it got,
\* whatever the caches hold, and no other invocation moves
C22_NoDeduplication ==
    [][ \A e \in EvalIds :
           /\ (evals[e].pc \in {"idle", "llm"} /\ StepOf(e) /\ cfg.hasHuman
                 /\ ReachedTier3(evals'[e]) /\ OtherWaits(e))
                 => /\ evals'[e].pc = "human"
                    /\ Has(evals'[e], "human")
                    /\ \A d \in EvalIds \ {e} : Unmoved(d)
           /\ (evals[e].pc = "human" /\ evals'[e].pc = "done")
                 => /\ evals'[e].block = (evals'[e].decision \in {"deny", Null})
                    /\ \A d \in EvalIds \ {e} : Unmoved(d) ]_vars

\* two invocations wait for the human about the same key
C22_TwoPending ==
    \E e, d \in EvalIds :
       /\ e # d
       /\ evals[e].pc = "human" /\ evals[d].pc = "human"
       /\ evals[e].key = evals[d].key

\* how often invocation ev has entered the stage
TimesEntered(ev, stage) == Cardinality({i \in 1..Len(ev.steps) : ev.steps[i] = stage})

\* the cost recordToolCost records for invocation ev
ToolCostOf(ev) == resolveToolCost(ev.call.toolName, effectiveBudget(cfg, ev.agentId))

\* C24: an invocation calls the adjudicator at most once, and only when one is
\* configured, the key was in neither cache, the budget check did not report
\* exceeded and Tier 1 decided escalate. When the adjudicator returns, allow lets
\* the call proceed and records its cost, deny blocks it, and escalate hands it to
\* Tier 3.
C24_AdjudicatorUse ==
    [][ \A e \in EvalIds :
           /\ Has(evals'[e], "llm") =>
                 /\ TimesEntered(evals'[e], "llm") = 1
                 /\ cfg.hasLLM
                 /\ Has(evals'[e], "rules")
                 /\ evals'[e].ruleResult.decision = "escalate"
           /\ (evals[e].pc = "idle" /\ evals'[e].pc = "llm") =>
                 /\ evals'[e].key \notin taskAllowCache \cup alwaysAllowCache
                 /\ cfg.hasTracker => ~BudgetNow(e).exceeded
           /\ (evals[e].pc = "llm" /\ StepOf(e)) =>
                 LET d == evals'[e].llmResult.decision
                 IN  /\ d = "allow" =>
                           /\ evals'[e].pc = "done" /\ ~evals'[e].block
                           /\ cfg.hasTracker =>
                                 sessionTotal' = sessionTotal + ToolCostOf(evals[e])
                     /\ d = "deny" => evals'[e].pc = "done" /\ evals'[e].block
                     /\ d = "escalate" =>
                           IF cfg.hasHuman THEN evals'[e].pc = "human"
                           ELSE evals'[e].pc = "done" /\ evals'[e].block
                     /\ d \in {"allow", "deny", "escalate"} ]_vars

\* the adjudicator allowed a call that Tier 1 escalated, and its cost is on record
C24_Witness ==
    \E e \in EvalIds :
       /\ evals[e].pc = "done" /\ Has(evals[e], "llm")
       /\ evals[e].llmResult.decision = "allow"
       /\ ~evals[e].block
       /\ sessionTotal >= ToolCostOf(evals[e])
       /\ cfg.hasTracker

\* C25 as the specification states it: with a tracker, the step in which an
\* invocation ends with proceed records the tool's cost, once, whichever path
\* allowed the call, and no other step of the invocation records anything
C25_AsClaimed ==
    [][ \A e \in EvalIds :
           (cfg.enabled /\ cfg.hasTracker /\ StepOf(e)) =>
              sessionTotal' = sessionTotal +
                 IF evals'[e].pc = "done" /\ ~evals'[e].block THEN ToolCostOf(evals'[e]) ELSE 0
      ]_vars

\* C26 as the specification states it: with budget enabled, a sessionLimit and
\* onExceeded = deny, the recorded session total is never above sessionLimit
C26_AsClaimed ==
    (/\ cfg.enabled /\ cfg.hasTracker /\ cfg.budget # None
     /\ cfg.budget[1].enabled
     /\ cfg.budget[1].sessionLimit # NoNumber
     /\ cfg.budget[1].onExceeded = "deny")
       => sessionTotal <= cfg.budget[1].sessionLimit

\* the rules of invocation ev, agent rules first, and whether the first of them
\* that matches its call has action deny
RulesOf(ev) ==
    (IF AgentConfig(cfg, ev.agentId) # None THEN AgentConfig(cfg, ev.agentId)[1].rules ELSE <<>>)
       \o cfg.rules

DenyRuleDecides(ev) ==
    LET m == {i \in 1..Len(RulesOf(ev)) :
                 matchRule(RulesOf(ev)[i], ev.call.toolName, ev.call.params, ev.trustLevel)}
    IN  /\ m # {}
        /\ RulesOf(ev)[CHOOSE i \in m : \A k \in m : i <= k].action = "deny"

\* C27 as the specification states it: an invocation for a call whose first
\* matching rule has action deny ends with block = true
C27_AsClaimed ==
    \A e \in EvalIds :
        (cfg.enabled /\ evals[e].pc = "done" /\ DenyRuleDecides(evals[e])) => evals[e].block

\* the keys of the calls for which a human-approval request returned the decision
AllowedAs(decision) ==
    {cacheKey(evals[e].call.toolName, evals[e].call.params) :
        e \in {d \in EvalIds : evals[d].pc = "done" /\ Has(evals[d], "human")
                                 /\ evals[d].decision = decision}}

\* C28: the session cache holds only keys of calls for which a human-approval
\* request returned allow-session, the permanent cache only keys of calls for which
\* one returned allow-always; a cache changes only in the step in which such a
\* request returns, and no step takes a key out of a cache
C28_CachesFromHumanOnly ==
    /\ [](taskAllowCache \subseteq AllowedAs("allow-session"))
    /\ [](alwaysAllowCache \subseteq AllowedAs("allow-always"))
    /\ [][ /\ taskAllowCache \subseteq taskAllowCache'
           /\ alwaysAllowCache \subseteq alwaysAllowCache'
           /\ \A e \in EvalIds :
                 (StepOf(e) /\ evals[e].pc # "human") =>
                    /\ taskAllowCache' = taskAllowCache
                    /\ alwaysAllowCache' = alwaysAllowCache ]_vars

\* a human allowed one call for always, and a call that the rules allowed has
\* left no key in either cache
C28_Witness ==
    \E e, d \in EvalIds :
       /\ evals[e].decision = "allow-always"
       /\ evals[e].key \in alwaysAllowCache /\ evals[e].key \notin taskAllowCache
       /\ evals[d].pc = "done" /\ ~evals[d].block /\ evals[d].steps = <<"cache", "rules">>
       /\ evals[d].key \notin taskAllowCache \cup alwaysAllowCache

\* C17 as the specification states it: every result with block = true carries a
\* blockReason that is not empty
C17_AsClaimed ==
    \A e \in EvalIds :
        evals[e].block => evals[e].blockReason # Undef /\ evals[e].blockReason # ""

HookIdle ==
    /\ cfg = Config(FALSE, <<>>, None, FALSE, FALSE, FALSE)
    /\ evals = [e \in EvalIds |-> IdleEval]
    /\ taskAllowCache = {}
    /\ alwaysAllowCache = {}
    /\ sessionTotal = 0
    /\ sessionCosts = NoAgentCosts
    /\ dailyCache = None
    /\ ledger = {}
    /\ file = FileState("missing", TRUE)
    /\ today = 1
    /\ peer = NewTracker
    /\ probe = NoProbe

(***************************************************************************)
(* budget.ts driven directly: a caller of createBudgetTracker's methods    *)
(* and of checkBudget. probe holds the call just made and what it gave.    *)
(***************************************************************************)
Probe(op, agentId, arg, ret, threw) ==
    [op |-> op, agentId |-> agentId, arg |-> arg, ret |-> ret, threw |-> threw]

CallerAgents == {Undef, "a1"}
Costs == {0, 1}
CheckedTools == {"read", "exec"}

\* the budget configs checkBudget is called with: disabled, a session limit that
\* escalates, a daily limit with no action, both limits with a defaultToolCost
BudgetConfigs ==
    { Some(Budget(FALSE, 1, 1, "deny")), Some(Budget(TRUE, 1, NoNumber, "escalate")),
      Some(Budget(TRUE, NoNumber, 2, Undef)),
      Some([Budget(TRUE, 3, 3, "deny") EXCEPT !.defaultToolCost = 2]) }

\* a ledger that has been in use for more than a week: today's entry, an entry
\* of seven days ago and one of eight days ago
AgedLedger ==
    StoredLedger \cup {DailyEntry(1 - RetentionDays, 0, NoAgentCosts),
                       DailyEntry(0 - RetentionDays, 0, NoAgentCosts)}

\* the files the tracker starts on
InitialFiles ==
    { FileState(k, TRUE) : k \in FileKinds } \cup { FileState("ok", FALSE) }

\* the cents on file, over all days
RECURSIVE FileTotal(_)
FileTotal(entries) ==
    IF entries = {} THEN 0
    ELSE LET d == CHOOSE x \in entries : TRUE
         IN  d.totalCost + FileTotal(entries \ {d})

\* tracker.recordCost(toolName, cost, agentId); when saveDaily throws, the in-memory
\* updates before it stay. The caller stops at MaxSpend cents in the session, in
\* the day and on file.
TrackerRecordCost(cost, agentId) ==
    /\ sessionTotal + cost <= MaxSpend
    /\ loadDaily.totalCost + cost <= MaxSpend
    /\ FileTotal(ledger) + cost <= MaxSpend
    /\ recordCost(cost, agentId)
    /\ probe' = Probe("recordCost", agentId, cost, Undef, saveDailyThrows)

\* tracker.getSessionCost(agentId)
TrackerGetSessionCost(agentId) ==
    /\ probe' = Probe("getSessionCost", agentId, Undef, getSessionCost(agentId), FALSE)
    /\ UNCHANGED budgetVars

\* tracker.getDailyCost(agentId)
TrackerGetDailyCost(agentId) ==
    /\ probe' = Probe("getDailyCost", agentId, Undef, getDailyCost(agentId), FALSE)
    /\ trackerRead(TRUE)

\* tracker.reset()
TrackerReset ==
    /\ sessionCosts' = NoAgentCosts
    /\ sessionTotal' = 0
    /\ dailyCache' = None
    /\ probe' = Probe("reset", Undef, Undef, Undef, FALSE)
    /\ UNCHANGED <<ledger, file, today, peer>>

\* checkBudget({ toolName, budgetConfig, tracker, agentId })
CheckBudget(toolName, budgetConfig, agentId) ==
    /\ probe' = Probe("checkBudget", agentId, [toolName |-> toolName, budgetConfig |-> budgetConfig],
                       checkBudget(toolName, budgetConfig, agentId), FALSE)
    /\ trackerRead(checkBudgetLoads(toolName, budgetConfig, agentId))

\* createBudgetTracker(budgetPath) on one of the files, or createBudgetTracker()
InitBudget ==
    /\ \E budgetPath \in BOOLEAN :
          /\ cfg = [Config(FALSE, <<>>, None, TRUE, FALSE, FALSE) EXCEPT !.budgetPath = budgetPath]
          /\ ~budgetPath => file = FileState("missing", TRUE)
    /\ evals = [e \in EvalIds |-> IdleEval]
    /\ taskAllowCache = {}
    /\ alwaysAllowCache = {}
    /\ sessionTotal = 0
    /\ sessionCosts = NoAgentCosts
    /\ dailyCache = None
    /\ file \in InitialFiles
    /\ ledger = IF file.kind = "ok" THEN AgedLedger ELSE {}
    /\ today = 1
    /\ peer = NewTracker
    /\ ApprovalIdle
    /\ LLMIdle
    /\ probe = NoProbe

NextBudget ==
    \/ \E cost \in Costs, agentId \in CallerAgents :
          TrackerRecordCost(cost, agentId) /\ UNCHANGED <<hookVars, approvalVars, llm>>
    \/ \E agentId \in CallerAgents :
          TrackerGetSessionCost(agentId) /\ UNCHANGED <<hookVars, approvalVars, llm>>
    \/ \E agentId \in CallerAgents :
          TrackerGetDailyCost(agentId) /\ UNCHANGED <<hookVars, approvalVars, llm>>
    \/ TrackerReset /\ UNCHANGED <<hookVars, approvalVars, llm>>
    \/ \E toolName \in CheckedTools, budgetConfig \in BudgetConfigs, agentId \in CallerAgents :
          CheckBudget(toolName, budgetConfig, agentId) /\ UNCHANGED <<hookVars, approvalVars, llm>>
    \/ DayRollover /\ probe' = NoProbe /\ UNCHANGED <<approvalVars, llm>>

SpecBudget == InitBudget /\ [][NextBudget]_vars

(***************************************************************************)
(* Properties of the budget tracker and checkBudget (checked on SpecBudget)*)
(***************************************************************************)
\* the cost of a tool as the specification words it: the perToolCosts entry if
\* defined, otherwise defaultToolCost (0.01 when the config sets none)
CostOf(toolName, c) ==
    IF toolName \in DOMAIN c.perToolCosts THEN c.perToolCosts[toolName]
    ELSE IF c.defaultToolCost # NoNumber THEN c.defaultToolCost
    ELSE DefaultToolCost

\* total + cost is over a limit that is set
OverLimit(session, daily, cost, c) ==
    \/ c.sessionLimit # NoNumber /\ session + cost > c.sessionLimit
    \/ c.dailyLimit # NoNumber /\ daily + cost > c.dailyLimit

\* C12 as the specification states it: with budget enabled checkBudget reports
\* exceeded exactly when the session total plus the tool's cost is over sessionLimit
\* or the daily total plus the cost is over dailyLimit, with action onExceeded (deny
\* when unset); with budget disabled it never reports exceeded
C12_AsClaimed ==
    probe.op = "checkBudget" =>
       LET c == probe.arg.budgetConfig[1]
           over == OverLimit(sessionTotal, loadDaily.totalCost,
                             CostOf(probe.arg.toolName, c), c)
       IN  IF ~c.enabled THEN ~probe.ret.exceeded
           ELSE /\ probe.ret.exceeded = over
                /\ over => probe.ret.action = Coalesce(c.onExceeded, "deny")

\* the totals the tracker reports: getSessionCost() and getSessionCost(a),
\* getDailyCost() and getDailyCost(a)
Reported ==
    [session |-> getSessionCost(Undef),
     sessionOf |-> [a \in AgentIds |-> getSessionCost(a)],
     daily |-> getDailyCost(Undef),
     dailyOf |-> [a \in AgentIds |-> getDailyCost(a)]]

NotBelow(after, before) ==
    /\ after.session >= before.session
    /\ after.daily >= before.daily
    /\ \A a \in AgentIds : /\ after.sessionOf[a] >= before.sessionOf[a]
                           /\ after.dailyOf[a] >= before.dailyOf[a]

\* C18: a step of the tracker that is no reset and in which the day does not
\* change (a recordCost with a cost >= 0, a read, a checkBudget) lowers none of
\* the totals the tracker reports
C18_TotalsNeverDecrease ==
    [][ (probe'.op # "reset" /\ today' = today) => NotBelow(Reported', Reported) ]_vars

\* a second cent has been recorded for agent a1 since the last reset, on a file
\* that cannot be written
C18_Witness ==
    /\ probe.op = "recordCost" /\ probe.arg = 1 /\ probe.agentId = "a1"
    /\ ~file.writable
    /\ Reported.sessionOf["a1"] = 2
    /\ Reported.daily = 3

\* C19 as the specification states it: whatever the ledger file holds and whether
\* or not it can be written, recordCost and the getters raise no exception, and
\* after recordCost the session total and the daily total include the cost
C19_AsClaimed ==
    [][ /\ probe'.op \in {"recordCost", "getSessionCost", "getDailyCost"} => ~probe'.threw
        /\ probe'.op = "recordCost" =>
              /\ Reported'.session = Reported.session + probe'.arg
              /\ Reported'.daily = Reported.daily + probe'.arg ]_vars

\* the cost recorded by a step: that of its recordCost, 0 for every other step
Recorded(p) == IF p.op = "recordCost" THEN p.arg ELSE 0
RecordedFor(p, a) == IF p.op = "recordCost" /\ p.agentId = a THEN p.arg ELSE 0

\* C33 as the specification states it: recordCost adds exactly its cost to the
\* session total and to the daily total and, given an agentId, to that agent's
\* session and daily totals and to no other agent's; so the session total is the
\* sum of the costs recorded since the last reset and the daily total the sum of
\* those recorded for the date (no step within the date other than recordCost
\* changes it), and each total is at least the sum of the per-agent totals
C33_AsClaimed ==
    /\ [](/\ Reported.session >= Reported.sessionOf["a1"] + Reported.sessionOf["a2"]
          /\ Reported.daily >= Reported.dailyOf["a1"] + Reported.dailyOf["a2"])
    /\ [][ /\ probe'.op # "reset" =>
                /\ Reported'.session = Reported.session + Recorded(probe')
                /\ \A a \in AgentIds :
                      Reported'.sessionOf[a] = Reported.sessionOf[a] + RecordedFor(probe', a)
           /\ today' = today =>
                /\ Reported'.daily = Reported.daily + Recorded(probe')
                /\ \A a \in AgentIds :
                      Reported'.dailyOf[a] = Reported.dailyOf[a] + RecordedFor(probe', a) ]_vars

\* the entries of a daily array dated the given day
DatedAt(entries, date) == {d \in entries : d.date = date}

\* C35: after a recordCost on a tracker with a ledger path whose write succeeds,
\* the file holds one entry for the current date, the entry the tracker holds in
\* memory, and besides it exactly the entries it held before that are dated not
\* more than RetentionDays days before the current date; older ones are gone
C35_LedgerRetention ==
    [][ (probe'.op = "recordCost" /\ saveDailyWrites) =>
           /\ file'.kind = "ok"
           /\ dailyCache' # None
           /\ DatedAt(ledger', today) = {dailyCache'[1]}
           /\ ledger' \ DatedAt(ledger', today) =
                 {d \in readDaily : d.date >= today - RetentionDays /\ d.date # today}
           /\ \A d \in ledger' : d.date >= today - RetentionDays ]_vars

\* on the second day a recording was written to a file that held entries of seven
\* and of eight days before the first day: both are gone, the first day's is kept
C35_Witness ==
    /\ probe.op = "recordCost" /\ probe.arg = 1 /\ ~probe.threw
    /\ cfg.budgetPath /\ file = FileState("ok", TRUE)
    /\ today = 2
    /\ DatedAt(ledger, 1) # {}
    /\ DatedAt(ledger, 2) = {dailyCache[1]}
    /\ \A d \in AgedLedger \ StoredLedger : d \notin ledger

\* C37 as the specification states it: reset() sets the session total and every
\* agent's session total to 0 and leaves the daily totals that getDailyCost
\* reports, in all and per agent, as they were, with and without a ledger path
C37_AsClaimed ==
    [][ probe'.op = "reset" =>
           /\ Reported'.session = 0
           /\ \A a \in AgentIds : Reported'.sessionOf[a] = 0
           /\ Reported'.daily = Reported.daily
           /\ Reported'.dailyOf = Reported.dailyOf ]_vars

(***************************************************************************)
(* Two trackers on one budget file: registerGuardianHook creates a tracker *)
(* for each registration, all for the budgetPath it is given. The tracker  *)
(* of the variables above and peer take turns; each call of a tracker     *)
(* runs to its end before the next one starts.                             *)
(***************************************************************************)
\* loadDaily of the second tracker
peerLoadDaily ==
    IF peer.dailyCache # None /\ peer.dailyCache[1].date = today THEN peer.dailyCache[1]
    ELSE IF cfg.budgetPath /\ file.kind = "ok" /\ \E d \in ledger : d.date = today
    THEN CHOOSE d \in ledger : d.date = today
    ELSE DailyEntry(today, 0, NoAgentCosts)

\* recordCost(toolName, cost, agentId) of the second tracker
PeerRecordCost(cost, agentId) ==
    LET daily == peerLoadDaily
        stored == DailyEntry(daily.date, daily.totalCost + cost,
                     IF agentId # Undef
                     THEN [daily.perAgent EXCEPT ![agentId] = @ + cost]
                     ELSE daily.perAgent)
    IN  /\ peer.sessionTotal + cost <= MaxSpend
        /\ daily.totalCost + cost <= MaxSpend
        /\ FileTotal(ledger) + cost <= MaxSpend
        /\ peer' = [sessionTotal |-> peer.sessionTotal + cost,
                    sessionCosts |-> IF agentId # Undef
                                     THEN [peer.sessionCosts EXCEPT ![agentId] = @ + cost]
                                     ELSE peer.sessionCosts,
                    dailyCache |-> Some(stored)]
        /\ ledger' = savedLedger(stored)
        /\ file' = savedFile
        /\ probe' = Probe("peer.recordCost", agentId, cost, Undef, saveDailyThrows)
        /\ UNCHANGED <<sessionTotal, sessionCosts, dailyCache, today>>

InitLedger ==
    /\ cfg = Config(FALSE, <<>>, None, TRUE, FALSE, FALSE)
    /\ evals = [e \in EvalIds |-> IdleEval]
    /\ taskAllowCache = {}
    /\ alwaysAllowCache = {}
    /\ sessionTotal = 0
    /\ sessionCosts = NoAgentCosts
    /\ dailyCache = None
    /\ file = FileState("ok", TRUE)
    /\ ledger = StoredLedger
    /\ today = 1
    /\ peer = NewTracker
    /\ ApprovalIdle
    /\ LLMIdle
    /\ probe = NoProbe

NextLedger ==
    \/ \E cost \in Costs, agentId \in CallerAgents :
          TrackerRecordCost(cost, agentId) /\ UNCHANGED <<hookVars, approvalVars, llm>>
    \/ \E cost \in Costs, agentId \in CallerAgents :
          PeerRecordCost(cost, agentId) /\ UNCHANGED <<hookVars, approvalVars, llm>>
    \/ TrackerGetDailyCost(Undef) /\ UNCHANGED <<hookVars, approvalVars, llm>>
    \/ TrackerReset /\ UNCHANGED <<hookVars, approvalVars, llm>>
    \/ DayRollover /\ probe' = NoProbe /\ UNCHANGED <<approvalVars, llm>>

SpecLedger == InitLedger /\ [][NextLedger]_vars

\* the daily total the file holds for the current date
Persisted ==
    IF \E d \in ledger : d.date = today
    THEN (CHOOSE d \in ledger : d.date = today).totalCost ELSE 0

\* C23 as the specification states it: the persisted daily total of the current
\* date is the sum of the costs recorded for that date, whichever tracker of the
\* file recorded them, so every recordCost raises it by the cost recorded
C23_AsClaimed ==
    [][ probe'.op \in {"recordCost", "peer.recordCost"}
           => Persisted' = Persisted + probe'.arg ]_vars

\* the tracker holds the daily entry of the current date
Loaded == dailyCache # None /\ dailyCache[1].date = today

\* the calls of the tracker that access the daily entry
Accesses(p) == p.op \in {"recordCost", "getDailyCost"}

\* C34 as the specification states it: the daily entry is read from the ledger
\* at the first access for a date, where it is the ledger's entry for the date
\* or zero, and from then on, until the date changes, the daily total is that of
\* the entry held, raised by the tracker's own recordings only, whatever the file
\* holds by then; a change of date leaves the session totals as they are
C34_AsClaimed ==
    [][ /\ (~Loaded /\ Accesses(probe')) =>
              Reported'.daily = Persisted + Recorded(probe')
        /\ (Loaded /\ today' = today) =>
              Reported'.daily = dailyCache[1].totalCost + Recorded(probe')
        /\ today' # today =>
              /\ Reported'.session = Reported.session
              /\ Reported'.sessionOf = Reported.sessionOf ]_vars

(***************************************************************************)
(* evaluateRules driven directly: a call is drawn at the start and the     *)
(* function is applied to it                                               *)
(***************************************************************************)
\* rules of the kinds GuardianRule allows: no action (escalate), a minTrust, a
\* riskLevel override above and below the tool's own risk, a glob, an empty label
RaiseAll == Rule("raise", "*", NoParamMatches, "allowed", "high", Undef, Undef)
LowerWrite == Rule(Undef, "wr*", NoParamMatches, Undef, "low", "allow", "")

SampleRules == {DenyRm, AllowExec, RaiseAll, LowerWrite}

\* config.agents[agentId].rules and config.rules
AgentRuleLists == {<<>>} \cup { <<r>> : r \in SampleRules }
GlobalRuleLists ==
    AgentRuleLists \cup { l \in { <<r, s>> : r \in SampleRules, s \in SampleRules } : l[1] # l[2] }

RuleParams == {P_ls, P_rm, P_env, P_none}

\* the params object of a call of evaluateRules
RulesCall(toolName, toolParams, globalRules, agentRules, threshold, trustLevel) ==
    [toolName |-> toolName, toolParams |-> toolParams, globalRules |-> globalRules,
     agentRules |-> agentRules, threshold |-> threshold, trustLevel |-> trustLevel]

RulesCalls ==
    { RulesCall(t, p, g, a, th, tr) :
        t \in ToolNames, p \in RuleParams, g \in GlobalRuleLists, a \in AgentRuleLists,
        th \in RiskLevels, tr \in TrustLevels }

EvaluateRules ==
    /\ probe.op = "call"
    /\ probe' = [probe EXCEPT
                   !.op = "evaluateRules",
                   !.ret = evaluateRules(probe.arg.toolName, probe.arg.toolParams,
                                         probe.arg.globalRules, probe.arg.agentRules,
                                         probe.arg.threshold, probe.arg.trustLevel)]
    /\ UNCHANGED <<hookVars, budgetVars, approvalVars, llm>>

InitRules ==
    /\ cfg = Config(FALSE, <<>>, None, FALSE, FALSE, FALSE)
    /\ evals = [e \in EvalIds |-> IdleEval]
    /\ taskAllowCache = {}
    /\ alwaysAllowCache = {}
    /\ sessionTotal = 0
    /\ sessionCosts = NoAgentCosts
    /\ dailyCache = None
    /\ ledger = {}
    /\ file = FileState("missing", TRUE)
    /\ today = 1
    /\ peer = NewTracker
    /\ ApprovalIdle
    /\ LLMIdle
    /\ \E call \in RulesCalls : probe = Probe("call", Undef, call, Undef, FALSE)

NextRules == EvaluateRules

SpecRules == InitRules /\ [][NextRules]_vars

(***************************************************************************)
(* Properties of evaluateRules (checked on SpecRules)                      *)
(***************************************************************************)
Evaluated == probe.op = "evaluateRules"

\* the rules of the call, agent rules first, and the places of those that match
CallRules == probe.arg.agentRules \o probe.arg.globalRules
Matching ==
    {i \in 1..Len(CallRules) :
        matchRule(CallRules[i], probe.arg.toolName, probe.arg.toolParams, probe.arg.trustLevel)}
NoRuleMatches == Matching = {}
Earliest == CHOOSE i \in Matching : \A k \in Matching : i <= k

\* the risk of the call before any rule: the tool's risk, raised by an escalation
CallEscalation == checkParamEscalations(probe.arg.toolName, probe.arg.toolParams)
Higher(a, b) == IF RISK_ORDER[b] > RISK_ORDER[a] THEN b ELSE a
CallRisk ==
    IF CallEscalation = None THEN getBaseRisk(probe.arg.toolName)
    ELSE Higher(getBaseRisk(probe.arg.toolName), CallEscalation[1].risk)

\* C13: with no matching rule and trust owner, a call of risk low, medium or high
\* is allowed whatever the threshold, and a call of risk critical is escalated
C13_OwnerBypass ==
    (Evaluated /\ NoRuleMatches /\ probe.arg.trustLevel = "owner") =>
        /\ CallRisk \in {"low", "medium", "high"} => probe.ret.decision = "allow"
        /\ CallRisk = "critical" => probe.ret.decision = "escalate"

C13_Witness ==
    /\ Evaluated /\ NoRuleMatches /\ probe.arg.trustLevel = "owner"
    /\ CallRisk = "high" /\ probe.arg.threshold = "low"
    /\ probe.ret.decision = "allow"

\* the calls of the model that the tables make critical: the gateway tool, a
\* destructive command given to exec, a sensitive path given to write
CriticalByTable ==
    \/ probe.arg.toolName = "gateway"
    \/ probe.arg.toolName = "exec" /\ probe.arg.toolParams = P_rm
    \/ probe.arg.toolName = "write" /\ probe.arg.toolParams = P_env

\* C32: with no matching rule, a call whose risk is critical, by the tool's base
\* risk or by a parameter escalation, is escalated with risk critical at every
\* trust level and every threshold
C32_CriticalAlwaysEscalates ==
    (Evaluated /\ NoRuleMatches /\ (CallRisk = "critical" \/ CriticalByTable)) =>
        /\ probe.ret.decision = "escalate"
        /\ probe.ret.riskLevel = "critical"

\* the owner's destructive command was escalated under the threshold critical
C32_Witness ==
    /\ Evaluated /\ NoRuleMatches
    /\ probe.arg.toolName = "exec" /\ probe.arg.toolParams = P_rm
    /\ getBaseRisk(probe.arg.toolName) = "high"
    /\ probe.arg.trustLevel = "owner" /\ probe.arg.threshold = "critical"
    /\ probe.ret.decision = "escalate"

\* the rank of the threshold a call is held to: one lower for a subagent, never
\* below the rank of low
AdjustedRank ==
    IF probe.arg.trustLevel = "subagent" /\ RISK_ORDER[probe.arg.threshold] >= 1
    THEN RISK_ORDER[probe.arg.threshold] - 1
    ELSE RISK_ORDER[probe.arg.threshold]

\* C14: with no matching rule and trust not owner, the call is escalated exactly
\* when the rank of its risk is at least the rank of the adjusted threshold, and
\* allowed otherwise; a subagent at threshold low has a low-risk call escalated
C14_ThresholdPolicy ==
    (Evaluated /\ NoRuleMatches /\ probe.arg.trustLevel # "owner") =>
        /\ probe.ret.decision = "escalate" <=> RISK_ORDER[CallRisk] >= AdjustedRank
        /\ probe.ret.decision \in {"escalate", "allow"}
        /\ (probe.arg.trustLevel = "subagent" /\ probe.arg.threshold = "low"
              /\ CallRisk = "low") => probe.ret.decision = "escalate"

C14_Witness ==
    /\ Evaluated /\ NoRuleMatches
    /\ probe.arg.trustLevel = "subagent" /\ probe.arg.threshold = "high"
    /\ CallRisk = "medium"
    /\ probe.ret.decision = "escalate"

\* the risk after the rule that decides, when one does
RuledRisk ==
    IF NoRuleMatches \/ CallRules[Earliest].riskLevel = Undef THEN CallRisk
    ELSE Higher(CallRisk, CallRules[Earliest].riskLevel)

\* C15: the riskLevel of the result is at least the tool's base risk: it is the
\* highest of the base risk, the level of a parameter escalation that applies and
\* the riskLevel of the rule that decides
C15_RiskNeverLowered ==
    Evaluated =>
        /\ RISK_ORDER[probe.ret.riskLevel] >= RISK_ORDER[getBaseRisk(probe.arg.toolName)]
        /\ probe.ret.riskLevel = RuledRisk

C15_Witness ==
    /\ Evaluated /\ ~NoRuleMatches
    /\ CallEscalation # None
    /\ CallRules[Earliest].riskLevel = "low"
    /\ probe.ret.riskLevel = "critical"

\* C16: the earliest matching rule of the agent rules followed by the global rules
\* decides: the decision is its action (escalate when it has none), the risk and
\* the label are its own, and an agent rule that matches is ahead of every global one
C16_FirstMatchWins ==
    (Evaluated /\ ~NoRuleMatches) =>
        /\ probe.ret.decision = Coalesce(CallRules[Earliest].action, "escalate")
        /\ probe.ret.riskLevel = RuledRisk
        /\ probe.ret.ruleLabel = Coalesce(CallRules[Earliest].label, CallRules[Earliest].id)
        /\ (\E i \in Matching : i <= Len(probe.arg.agentRules)) =>
              /\ Earliest <= Len(probe.arg.agentRules)
              /\ probe.ret.decision =
                    Coalesce(probe.arg.agentRules[Earliest].action, "escalate")

C16_Witness ==
    /\ Evaluated
    /\ \E i \in Matching, k \in Matching :
          /\ i <= Len(probe.arg.agentRules) /\ k > Len(probe.arg.agentRules)
          /\ Coalesce(CallRules[i].action, "escalate") = "allow"
          /\ Coalesce(CallRules[k].action, "escalate") = "deny"
    /\ probe.ret.decision = "allow"

\* C36: when a parameter escalation applies to a call and a rule matches it, the
\* reason of the result is the label of the escalation, the decision is the
\* action of the rule (escalate when it has none), the risk is the highest of the
\* escalated risk and the rule's riskLevel, and ruleLabel is the rule's own label
\* (its id when it has no label)
C36_EscalationLabelWins ==
    (Evaluated /\ ~NoRuleMatches /\ CallEscalation # None) =>
        LET rule == CallRules[Earliest]
        IN  /\ probe.ret.reason = CallEscalation[1].label
            /\ probe.ret.decision = Coalesce(rule.action, "escalate")
            /\ probe.ret.riskLevel =
                  IF rule.riskLevel = Undef THEN CallRisk
                  ELSE Higher(CallRisk, rule.riskLevel)
            /\ RISK_ORDER[probe.ret.riskLevel] >= RISK_ORDER[CallEscalation[1].risk]
            /\ rule.label # Undef => probe.ret.ruleLabel = rule.label
            /\ rule.label = Undef => probe.ret.ruleLabel = rule.id

\* a destructive command matched the rule labelled "rm is forbidden": the reason
\* is the escalation's, the decision and the ruleLabel are the rule's
C36_Witness ==
    /\ Evaluated /\ ~NoRuleMatches /\ CallEscalation # None
    /\ CallRules[Earliest] = DenyRm
    /\ probe.ret.reason = "destructive command"
    /\ probe.ret.ruleLabel = "rm is forbidden"
    /\ probe.ret.decision = "deny"

\* the result for the call of the state at another trust level, and for another
\* tool and parameters at the trust level and threshold of the call
AtTrust(trustLevel) ==
    evaluateRules(probe.arg.toolName, probe.arg.toolParams, probe.arg.globalRules,
                  probe.arg.agentRules, probe.arg.threshold, trustLevel)
ForCall(toolName, toolParams) ==
    evaluateRules(toolName, toolParams, probe.arg.globalRules, probe.arg.agentRules,
                  probe.arg.threshold, probe.arg.trustLevel)

\* no rule of the call matches at the trust level, or the other tool and parameters
UnmatchedAt(trustLevel) ==
    FirstMatch(CallRules, probe.arg.toolName, probe.arg.toolParams, trustLevel) = 0
UnmatchedFor(toolName, toolParams) ==
    FirstMatch(CallRules, toolName, toolParams, probe.arg.trustLevel) = 0

\* C38: with no matching rule, a call that is allowed at a trust level is allowed
\* at every higher one in the order subagent < unknown < allowed < owner, and
\* where a call is escalated every call of higher risk is escalated at the same
\* trust level and threshold
C38_Tier1Monotone ==
    (Evaluated /\ NoRuleMatches) =>
        /\ probe.ret.decision \in {"allow", "escalate"}
        /\ probe.ret.decision = "allow" =>
              \A tr \in TrustLevels :
                 (TRUST_ORDER[tr] > TRUST_ORDER[probe.arg.trustLevel] /\ UnmatchedAt(tr)) =>
                     AtTrust(tr).decision = "allow"
        /\ probe.ret.decision = "escalate" =>
              \A t \in ToolNames, p \in RuleParams :
                 (UnmatchedFor(t, p)
                    /\ RISK_ORDER[ForCall(t, p).riskLevel] > RISK_ORDER[probe.ret.riskLevel]) =>
                     ForCall(t, p).decision = "escalate"

\* a subagent was allowed a call of low risk under the threshold high, and an
\* owner would be allowed it by the bypass
C38_Witness ==
    /\ Evaluated /\ NoRuleMatches
    /\ probe.arg.trustLevel = "subagent" /\ probe.arg.threshold = "high"
    /\ probe.ret.decision = "allow" /\ probe.ret.riskLevel = "low"
    /\ UnmatchedAt("owner")
    /\ AtTrust("owner").reason = "owner bypass (risk below critical)"

(***************************************************************************)
(* guardian-approvals.ts: GuardianApprovalManager. regs lists the          *)
(* records create returned, each with the promise and the timer that       *)
(* waitForDecision made for it; pending maps an id to the index of the     *)
(* record its PendingEntry holds.                                          *)
(***************************************************************************)
RegIds == 1..MaxRegs

\* the ids callers pass to create: none, blank, "x", and "x" with spaces around it
ExplicitIds == {Undef, " ", "x", " x "}
Timeouts == {1}
ManagerDecisions == {"allow-once", "deny"}
Resolvers == {Undef, "user-42"}
\* the calls of resolve made: an operator allows, an anonymous client denies
ResolveInputs == {<<"allow-once", "user-42">>, <<"deny", Undef>>}

RECURSIVE TrimStart(_)
TrimStart(s) ==
    IF Len(s) > 0 /\ SubSeq(s, 1, 1) = " " THEN TrimStart(SubSeq(s, 2, Len(s))) ELSE s

RECURSIVE TrimEnd(_)
TrimEnd(s) ==
    IF Len(s) > 0 /\ SubSeq(s, Len(s), Len(s)) = " " THEN TrimEnd(SubSeq(s, 1, Len(s) - 1)) ELSE s

\* id.trim()
Trim(s) == TrimEnd(TrimStart(s))

\* randomUUID(): the n-th one drawn; no two draws agree and none is an explicit id
randomUUID(n) == "uuid-" \o ToString(n)

\* id && id.trim().length > 0 ? id.trim() : randomUUID()
resolvedId(id, n) == IF id # Undef /\ Len(Trim(id)) > 0 THEN Trim(id) ELSE randomUUID(n)

\* every id a record can carry
RecordIds == {"x"} \cup {randomUUID(n) : n \in RegIds}

\* the records create has returned and waitForDecision has not yet been called with;
\* callers call the two in one synchronous turn (guardian-approval.ts, 64-65), so
\* no timer and no other call runs in between
Unwaited == {r \in 1..Len(regs) : regs[r].timer = "none"}

\* create(request, timeoutMs, id)
Create(id, timeoutMs) ==
    /\ Len(regs) < MaxRegs
    /\ Unwaited = {}
    /\ regs' = Append(regs,
          [id |-> resolvedId(id, Len(regs) + 1), timeoutMs |-> timeoutMs, createdAtMs |-> now,
           expiresAtMs |-> now + timeoutMs, resolvedAtMs |-> NoNumber, decision |-> Undef,
           resolvedBy |-> Undef, timer |-> "none", deadline |-> NoNumber, outcome |-> "unset"])
    /\ lastOp' = NoResolve
    /\ UNCHANGED <<pending, now>>

\* Map.set / Map.delete on pending
MapSet(map, id, r) == [k \in DOMAIN map \cup {id} |-> IF k = id THEN r ELSE map[k]]
MapDelete(map, id) == [k \in DOMAIN map \ {id} |-> map[k]]

\* waitForDecision(record, timeoutMs): each record is waited for once and with the
\* timeout given to create, as by the guardian.approval.request handler
WaitForDecision(r) ==
    /\ r \in 1..Len(regs)
    /\ regs[r].timer = "none"
    /\ regs' = [regs EXCEPT ![r].timer = "armed", ![r].deadline = now + regs[r].timeoutMs]
    /\ pending' = MapSet(pending, regs[r].id, r)
    /\ lastOp' = NoResolve
    /\ UNCHANGED now

\* the promise of a record is settled by the first call of its resolve function
Settle(rec, value) == IF rec.outcome = "unset" THEN [rec EXCEPT !.outcome = value] ELSE rec

\* the timer of a registration fires without settling its promise
TimerFiresUnsettled(r) ==
    /\ Unwaited = {}
    /\ r \in 1..Len(regs)
    /\ regs[r].timer = "armed"
    /\ now >= regs[r].deadline
    /\ pending' = MapDelete(pending, regs[r].id)
    /\ regs' = [regs EXCEPT ![r].timer = "fired", ![r].deadline = NoNumber]
    /\ lastOp' = NoResolve
    /\ UNCHANGED now

\* a timer callback that resolves null and leaves the pending entry in the map
TimerFiresKeepsPending(r) ==
    /\ Unwaited = {}
    /\ r \in 1..Len(regs)
    /\ regs[r].timer = "armed"
    /\ now >= regs[r].deadline
    /\ pending' = pending
    /\ regs' = [regs EXCEPT ![r] = [Settle(@, Null) EXCEPT !.timer = "fired", !.deadline = NoNumber]]
    /\ lastOp' = NoResolve
    /\ UNCHANGED now

\* the timer callback of waitForDecision, not before its delay has passed
TimerFires(r) ==
    /\ Unwaited = {}
    /\ r \in 1..Len(regs)
    /\ regs[r].timer = "armed"
    /\ now >= regs[r].deadline
    /\ pending' = MapDelete(pending, regs[r].id)
    /\ regs' = [regs EXCEPT ![r] = [Settle(@, Null) EXCEPT !.timer = "fired", !.deadline = NoNumber]]
    /\ lastOp' = NoResolve
    /\ UNCHANGED now

\* a resolve that stamps the record and leaves the pending entry in the map
ResolveKeepsPending(id, decision, resolvedBy) ==
    /\ Unwaited = {}
    /\ IF id \notin DOMAIN pending
       THEN /\ lastOp' = [op |-> "resolve", id |-> id, ret |-> FALSE]
            /\ UNCHANGED <<pending, regs>>
       ELSE LET r == pending[id]
            IN  /\ regs' = [regs EXCEPT ![r] =
                              [Settle(@, decision) EXCEPT !.timer = "cleared", !.deadline = NoNumber,
                                  !.resolvedAtMs = now, !.decision = decision,
                                  !.resolvedBy = Coalesce(resolvedBy, Null)]]
                /\ pending' = pending
                /\ lastOp' = [op |-> "resolve", id |-> id, ret |-> TRUE]
    /\ UNCHANGED now

\* resolve(recordId, decision, resolvedBy)
Resolve(id, decision, resolvedBy) ==
    /\ Unwaited = {}
    /\ IF id \notin DOMAIN pending
       THEN /\ lastOp' = [op |-> "resolve", id |-> id, ret |-> FALSE]
            /\ UNCHANGED <<pending, regs>>
       ELSE LET r == pending[id]
            IN  /\ regs' = [regs EXCEPT ![r] =
                              [Settle(@, decision) EXCEPT !.timer = "cleared", !.deadline = NoNumber,
                                  !.resolvedAtMs = now, !.decision = decision,
                                  !.resolvedBy = Coalesce(resolvedBy, Null)]]
                /\ pending' = MapDelete(pending, id)
                /\ lastOp' = [op |-> "resolve", id |-> id, ret |-> TRUE]
    /\ UNCHANGED now

\* getSnapshot(recordId): the index of the pending record, or 0 for null
getSnapshot(id) == IF id \in DOMAIN pending THEN pending[id] ELSE 0

\* a millisecond passes
Tick ==
    /\ Unwaited = {}
    /\ now < MaxTime
    /\ now' = now + 1
    /\ lastOp' = NoResolve
    /\ UNCHANGED <<pending, regs>>

InitApproval == HookIdle /\ ApprovalIdle /\ LLMIdle

NextApproval ==
    \/ \E id \in ExplicitIds, t \in Timeouts :
          Create(id, t) /\ UNCHANGED <<hookVars, budgetVars, llm, probe, gateway, forwarder>>
    \/ \E r \in RegIds : WaitForDecision(r) /\ UNCHANGED <<hookVars, budgetVars, llm, probe, gateway, forwarder>>
    \/ \E r \in RegIds : TimerFires(r) /\ UNCHANGED <<hookVars, budgetVars, llm, probe, gateway, forwarder>>
    \/ \E id \in RecordIds, in \in ResolveInputs :
          Resolve(id, in[1], in[2]) /\ UNCHANGED <<hookVars, budgetVars, llm, probe, gateway, forwarder>>
    \/ Tick /\ UNCHANGED <<hookVars, budgetVars, llm, probe, gateway, forwarder>>

SpecApproval == InitApproval /\ [][NextApproval]_vars

(***************************************************************************)
(* Properties of the approval manager (checked on SpecApproval)            *)
(***************************************************************************)
\* the step is a call of resolve
ResolveCalled == lastOp'.op = "resolve"

\* the step is a call of resolve that returned true
ResolveSucceeded == ResolveCalled /\ lastOp'.ret

\* the registrations made so far under the id of registration r
SameId(r) == {q \in 1..Len(regs) : regs[q].id = regs[r].id /\ regs[q].timer # "none"}

\* C1 as the specification states it: every registered waiter observes exactly one
\* outcome. A resolve(id, d) that comes before the waiter's timer has fired gives the
\* waiter d and cancels its timer; once the timer has fired every later resolve(id)
\* returns false; and an outcome, once set, never changes.
C1_AsClaimed ==
    [][ \A r \in 1..Len(regs) :
           /\ (regs[r].timer = "armed" /\ ResolveSucceeded /\ lastOp'.id = regs[r].id)
                 => /\ regs'[r].timer = "cleared"
                    /\ regs'[r].outcome = regs'[pending[regs[r].id]].decision
           /\ (regs[r].timer = "fired" /\ SameId(r) = {r} /\ ResolveCalled
                    /\ lastOp'.id = regs[r].id)
                 => ~lastOp'.ret
           /\ regs[r].outcome # "unset" => regs'[r].outcome = regs[r].outcome ]_vars

\* C5: resolve returns true only for an id that is pending, whose record then carries
\* no decision yet; it stamps that record and removes the id, so a second resolve of
\* the id fails. A resolve of an id that is not pending (never registered, resolved,
\* expired) returns false and changes neither the pending set nor any record, and a
\* decision, resolvedAt and resolvedBy once stamped are never changed by any step.
C5_ResolveAtMostOnce ==
    [][ /\ ResolveCalled =>
              IF lastOp'.id \in DOMAIN pending
              THEN /\ lastOp'.ret
                   /\ regs[pending[lastOp'.id]].decision = Undef
                   /\ regs[pending[lastOp'.id]].timer = "armed"
                   /\ regs'[pending[lastOp'.id]].decision \in ManagerDecisions
                   /\ lastOp'.id \notin DOMAIN pending'
              ELSE /\ ~lastOp'.ret
                   /\ pending' = pending
                   /\ regs' = regs
        /\ \A r \in 1..Len(regs) :
              regs[r].decision # Undef =>
                 /\ regs'[r].decision = regs[r].decision
                 /\ regs'[r].resolvedAtMs = regs[r].resolvedAtMs
                 /\ regs'[r].resolvedBy = regs[r].resolvedBy ]_vars

\* a second resolve of an id whose record is already stamped has just returned false
C5_Witness ==
    /\ lastOp = [op |-> "resolve", id |-> "x", ret |-> FALSE]
    /\ \E r \in 1..Len(regs) : regs[r].id = "x" /\ regs[r].decision = "deny"

\* C6: when the timer of a registration fires, its delay has passed since the
\* registration, the waiter receives null, and the id is no longer pending, so that
\* getSnapshot(id) returns null
C6_TimeoutGivesNull ==
    [][ \A r \in 1..Len(regs) :
           (regs[r].timer = "armed" /\ regs'[r].timer = "fired")
              => /\ now >= regs[r].createdAtMs + regs[r].timeoutMs
                 /\ regs[r].outcome = "unset"
                 /\ regs'[r].outcome = Null
                 /\ regs[r].id \notin DOMAIN pending'
                 /\ getSnapshot(regs[r].id)' = 0 ]_vars

\* a registration that nobody resolved has timed out
C6_Witness ==
    \E r \in 1..Len(regs) :
       /\ regs[r].timer = "fired"
       /\ regs[r].decision = Undef
       /\ regs[r].outcome = Null
       /\ now = regs[r].createdAtMs + regs[r].timeoutMs
       /\ getSnapshot(regs[r].id) = 0

\* the step is a call of create, and the record it returned
CreateCalled == Len(regs') = Len(regs) + 1
Created == regs'[Len(regs')]

\* the explicit ids of the callers after trimming, blank ones left out
TrimmedIds == {Trim(id) : id \in ExplicitIds \ {Undef}} \ {""}

\* C20 as the specification states it: the record create returns has the trimmed
\* explicit id when that is not empty and not pending, and otherwise a fresh id, so
\* in either case an id that no pending entry has and that getSnapshot finds nothing
\* under until waitForDecision is called; its expiresAtMs is createdAtMs + timeoutMs
C20_AsClaimed ==
    [][ CreateCalled =>
          /\ Created.id \notin DOMAIN pending
          /\ \/ Created.id \in TrimmedIds
             \/ \A r \in 1..Len(regs) : regs[r].id # Created.id
          /\ Created.createdAtMs = now
          /\ Created.expiresAtMs = Created.createdAtMs + Created.timeoutMs
          /\ Created.id \notin DOMAIN pending' ]_vars

\* the registrations of an id that waitForDecision has made and that are neither
\* resolved nor expired
Live(id) == {r \in 1..Len(regs) : regs[r].id = id /\ regs[r].timer = "armed"}

\* C21 as the specification states it: getSnapshot(id) returns a record exactly while
\* id is registered by waitForDecision and neither resolved nor expired, and null
\* before registration, after a successful resolve and after expiry
C21_AsClaimed ==
    \A id \in RecordIds :
        IF Live(id) = {} THEN getSnapshot(id) = 0 ELSE getSnapshot(id) \in Live(id)

\* registration q holds the pending entry of its id
HoldsEntry(q) == regs[q].id \in DOMAIN pending /\ pending[regs[q].id] = q

\* C29 as the specification states it: the step in which the timer of registration
\* r fires leaves the pending entry and the outcome of every other registration as
\* they are, and a successful resolve gives its decision to the waiter of the entry
\* it stamped
C29_AsClaimed ==
    [][ /\ \A r \in 1..Len(regs) :
              (regs[r].timer = "armed" /\ regs'[r].timer = "fired") =>
                 \A q \in 1..Len(regs) \ {r} :
                    /\ HoldsEntry(q) => HoldsEntry(q)'
                    /\ regs'[q].outcome = regs[q].outcome
        /\ ResolveSucceeded =>
              regs'[pending[lastOp'.id]].outcome = regs'[pending[lastOp'.id]].decision ]_vars

(***************************************************************************)
(* server-methods/guardian-approval.ts: the gateway handlers. A request    *)
(* handler runs from its start to its await in one turn; the continuation  *)
(* of the await runs before any other handler, timer or tick.              *)
(***************************************************************************)
VALID_DECISIONS == {"allow-once", "allow-session", "allow-always", "deny"}

\* the ids clients ask for, and the resolve calls they make: an operator allows,
\* and a client sends a decision that is none
GatewayIds == {Undef, " x "}
GatewayResolves == {<<"allow-once", "user-42">>, <<"later", Undef>>}

\* what the request handler does between its checks and its await, in order
RequestSteps == <<"create", "waitForDecision", "broadcast", "forward">>

\* the accepted requests whose promise is settled and whose handler has not
\* yet run on to respond
Unanswered ==
    {r \in 1..Len(gateway) : regs[r].outcome # "unset" /\ gateway[r].responses = <<>>}

\* typeof p.id === "string" && p.id.trim().length > 0 ? p.id.trim() : null
explicitIdOf(id) == IF id # Undef /\ Len(Trim(id)) > 0 THEN Trim(id) ELSE Null

\* a handler that answers every settled request with null
GatewayRespondsNull(r) ==
    /\ r \in Unanswered
    /\ gateway' = [gateway EXCEPT ![r].responses = <<Null>>]
    /\ lastOp' = NoResolve
    /\ UNCHANGED <<pending, regs, now>>

\* a request handler that registers an explicit id without looking it up first
GatewayRequestUnchecked(id, timeoutMs) ==
    /\ Unanswered = {}
    /\ Len(regs) < MaxRegs
    /\ now + timeoutMs <= MaxTime
    /\ LET r == Len(regs) + 1
           rid == resolvedId(IF explicitIdOf(id) = Null THEN Undef ELSE explicitIdOf(id), r)
       IN  /\ regs' = Append(regs,
                 [id |-> rid, timeoutMs |-> timeoutMs, createdAtMs |-> now,
                  expiresAtMs |-> now + timeoutMs, resolvedAtMs |-> NoNumber,
                  decision |-> Undef, resolvedBy |-> Undef, timer |-> "armed",
                  deadline |-> now + timeoutMs, outcome |-> "unset"])
           /\ pending' = MapSet(pending, rid, r)
           /\ gateway' = Append(gateway, [steps |-> RequestSteps, responses |-> <<>>])
           /\ lastOp' = NoResolve
           /\ UNCHANGED now

\* guardian.approval.request, up to its await
GatewayRequest(id, timeoutMs) ==
    /\ Unanswered = {}
    /\ Len(regs) < MaxRegs
    /\ now + timeoutMs <= MaxTime
    /\ IF explicitIdOf(id) # Null /\ getSnapshot(explicitIdOf(id)) # 0
       THEN /\ lastOp' = [op |-> "rejected", id |-> explicitIdOf(id), ret |-> FALSE]
            /\ UNCHANGED <<pending, regs, now, gateway>>
       ELSE LET r == Len(regs) + 1
                rid == resolvedId(IF explicitIdOf(id) = Null THEN Undef ELSE explicitIdOf(id), r)
            IN  /\ regs' = Append(regs,
                      [id |-> rid, timeoutMs |-> timeoutMs, createdAtMs |-> now,
                       expiresAtMs |-> now + timeoutMs, resolvedAtMs |-> NoNumber,
                       decision |-> Undef, resolvedBy |-> Undef, timer |-> "armed",
                       deadline |-> now + timeoutMs, outcome |-> "unset"])
                /\ pending' = MapSet(pending, rid, r)
                /\ gateway' = Append(gateway, [steps |-> RequestSteps, responses |-> <<>>])
                /\ lastOp' = NoResolve
                /\ UNCHANGED now

\* guardian.approval.request after its await: respond(true, { id, decision, ... })
GatewayRespond(r) ==
    /\ r \in Unanswered
    /\ gateway' = [gateway EXCEPT ![r].responses = Append(@, regs[r].outcome)]
    /\ lastOp' = NoResolve
    /\ UNCHANGED <<pending, regs, now>>

\* guardian.approval.resolve
GatewayResolve(id, decision, resolvedBy) ==
    /\ Unanswered = {}
    /\ IF decision \notin VALID_DECISIONS
       THEN /\ lastOp' = [op |-> "invalid", id |-> Undef, ret |-> FALSE]
            /\ UNCHANGED <<pending, regs, now>>
       ELSE Resolve(id, decision, resolvedBy)
    /\ UNCHANGED gateway

InitGateway == HookIdle /\ ApprovalIdle /\ LLMIdle

NextGateway ==
    \/ \E id \in GatewayIds, t \in Timeouts :
          GatewayRequest(id, t) /\ UNCHANGED <<hookVars, budgetVars, llm, probe, forwarder>>
    \/ \E r \in RegIds : GatewayRespond(r) /\ UNCHANGED <<hookVars, budgetVars, llm, probe, forwarder>>
    \/ \E id \in RecordIds, in \in GatewayResolves :
          GatewayResolve(id, in[1], in[2]) /\ UNCHANGED <<hookVars, budgetVars, llm, probe, forwarder>>
    \/ \E r \in RegIds :
          Unanswered = {} /\ TimerFires(r)
             /\ UNCHANGED <<hookVars, budgetVars, llm, probe, gateway, forwarder>>
    \/ Unanswered = {} /\ Tick /\ UNCHANGED <<hookVars, budgetVars, llm, probe, gateway, forwarder>>

\* the event loop runs every continuation and every timer that is due, and time
\* goes on
SpecGateway ==
    /\ InitGateway /\ [][NextGateway]_vars
    /\ \A r \in RegIds :
          /\ WF_vars(GatewayRespond(r) /\ UNCHANGED <<hookVars, budgetVars, llm, probe, forwarder>>)
          /\ WF_vars(Unanswered = {} /\ TimerFires(r)
                        /\ UNCHANGED <<hookVars, budgetVars, llm, probe, gateway, forwarder>>)
    /\ WF_vars(Unanswered = {} /\ Tick /\ UNCHANGED <<hookVars, budgetVars, llm, probe, gateway, forwarder>>)

(***************************************************************************)
(* Properties of the gateway handlers (checked on SpecGateway)             *)
(***************************************************************************)
\* step i of the request handler came before step k
Before(steps, first, second) ==
    \E i, k \in 1..Len(steps) : i < k /\ steps[i] = first /\ steps[k] = second

\* the accepted requests under the id that are neither resolved nor timed out
Open(id) ==
    {r \in 1..Len(gateway) :
        regs[r].id = id /\ regs[r].decision = Undef /\ now < regs[r].expiresAtMs}

\* the handler has responded to accepted request r
Answered(r) == Len(gateway) >= r /\ gateway[r].responses # <<>>

\* C30: the request handler registers the approval before it broadcasts and
\* forwards it; a resolve with a valid decision for the id of a request that is
\* neither resolved nor timed out succeeds and settles that request with its
\* decision; the handler responds at most once to a request, with what the request
\* was settled with, which is null after a timeout; and every accepted request
\* gets its response
C30_RegisteredBeforeNotified ==
    /\ [](\A r \in 1..Len(gateway) :
             /\ Before(gateway[r].steps, "waitForDecision", "broadcast")
             /\ Before(gateway[r].steps, "waitForDecision", "forward")
             /\ Len(gateway[r].responses) <= 1
             /\ gateway[r].responses # <<>> =>
                   /\ gateway[r].responses[1] = regs[r].outcome
                   /\ regs[r].timer = "fired" => gateway[r].responses[1] = Null
                   /\ regs[r].timer = "cleared" => gateway[r].responses[1] = regs[r].decision)
    /\ [][ (lastOp'.op = "resolve" /\ Open(lastOp'.id) # {}) =>
              /\ lastOp'.ret
              /\ \A r \in Open(lastOp'.id) :
                    /\ regs'[r].decision \in VALID_DECISIONS
                    /\ regs'[r].outcome = regs'[r].decision ]_vars
    /\ \A r \in RegIds : [](Len(gateway) >= r => <>Answered(r))

\* one request was answered with the decision of a resolve, another with null
\* after its timeout
C30_Witness ==
    \E r, q \in 1..Len(gateway) :
       /\ gateway[r].responses = <<"allow-once">> /\ regs[r].timer = "cleared"
       /\ gateway[q].responses = <<Null>> /\ regs[q].timer = "fired"

\* the accepted requests that are pending: registered, neither resolved nor timed out
PendingRequests == {r \in 1..Len(regs) : regs[r].timer = "armed"}

\* a request with this id is refused: its trimmed id is that of a pending approval
Taken(id) == explicitIdOf(id) # Null /\ explicitIdOf(id) \in DOMAIN pending

\* C31: a request whose explicit id is pending is rejected and leaves the pending
\* approvals, their records and their timers as they were, no request is accepted
\* under a pending id, and so no two pending approvals made through the gateway
\* handlers share an id and each is the one its id is mapped to
C31_PendingIdsReserved ==
    /\ [](\A r \in PendingRequests :
             /\ pending[regs[r].id] = r
             /\ \A q \in PendingRequests : regs[q].id = regs[r].id => q = r)
    /\ [][ /\ lastOp'.op = "rejected" =>
                /\ pending' = pending /\ regs' = regs /\ gateway' = gateway
                /\ lastOp'.id \in DOMAIN pending
           /\ \A id \in GatewayIds :
                 (Taken(id) /\ \E t \in Timeouts : GatewayRequest(id, t)) =>
                     lastOp'.op = "rejected" /\ Len(regs') = Len(regs) ]_vars

\* a request for an id that is pending was rejected, and the approval is pending still
C31_Witness ==
    /\ lastOp.op = "rejected"
    /\ \E r \in PendingRequests : regs[r].id = lastOp.id /\ gateway[r].responses = <<>>

(***************************************************************************)
(* approval-forwarder.ts: one forwarder, called as the gateway handlers    *)
(* call it and by any other holder of the object. An entry is what         *)
(* handleRequested stored for one request: its id, its timer, and the      *)
(* messages delivered to its targets, in order. Each call runs to its      *)
(* first await in one turn; a message counts from the call of deliver.     *)
(***************************************************************************)
\* the ids of the requests handed over, which may come again once and while pending
ForwardIds == {"x", randomUUID(1)}

\* Math.max(0, request.expiresAtMs - nowMs())
expiresInMs(expiresAtMs) == IF expiresAtMs - now > 0 THEN expiresAtMs - now ELSE 0

\* a handleResolved that leaves the entry in the pending map
HandleResolvedKeepsEntry(id) ==
    /\ IF id \notin DOMAIN forwarder.pending
       THEN /\ lastOp' = [op |-> "handleResolved", id |-> id, ret |-> FALSE]
            /\ UNCHANGED forwarder
       ELSE LET q == forwarder.pending[id]
            IN  /\ forwarder' =
                      [forwarder EXCEPT !.entries[q].sent = Append(@, "resolved")]
                /\ lastOp' = [op |-> "handleResolved", id |-> id, ret |-> TRUE]
    /\ UNCHANGED <<pending, regs, now, gateway>>

\* handleRequested(request); hasTargets: resolveTargets found a target
HandleRequested(id, hasTargets, expiresAtMs) ==
    /\ Len(forwarder.entries) < MaxRegs
    /\ expiresAtMs <= MaxTime
    /\ IF ~hasTargets
       THEN /\ lastOp' = [op |-> "handleRequested", id |-> id, ret |-> FALSE]
            /\ UNCHANGED forwarder
       ELSE LET r == Len(forwarder.entries) + 1
            IN  /\ forwarder' =
                      [entries |-> Append(forwarder.entries,
                                     [id |-> id, timeoutId |-> "armed",
                                      due |-> now + expiresInMs(expiresAtMs),
                                      sent |-> <<"requested">>]),
                       pending |-> MapSet(forwarder.pending, id, r)]
                /\ lastOp' = [op |-> "handleRequested", id |-> id, ret |-> TRUE]
    /\ UNCHANGED <<pending, regs, now, gateway>>

\* the timer callback of entry r: it takes whatever entry the map holds for its id
ExpiryFires(r) ==
    /\ r \in 1..Len(forwarder.entries)
    /\ forwarder.entries[r].timeoutId = "armed"
    /\ now >= forwarder.entries[r].due
    /\ LET id == forwarder.entries[r].id
       IN  IF id \notin DOMAIN forwarder.pending
           THEN forwarder' = [forwarder EXCEPT !.entries[r].timeoutId = "fired"]
           ELSE LET q == forwarder.pending[id]
                IN  forwarder' =
                       [entries |-> [[forwarder.entries EXCEPT ![r].timeoutId = "fired"]
                                        EXCEPT ![q].sent = Append(@, "expired")],
                        pending |-> MapDelete(forwarder.pending, id)]
    /\ lastOp' = NoResolve
    /\ UNCHANGED <<pending, regs, now, gateway>>

\* handleResolved(resolved)
HandleResolved(id) ==
    /\ IF id \notin DOMAIN forwarder.pending
       THEN /\ lastOp' = [op |-> "handleResolved", id |-> id, ret |-> FALSE]
            /\ UNCHANGED forwarder
       ELSE LET q == forwarder.pending[id]
            IN  /\ forwarder' =
                      [entries |-> [forwarder.entries EXCEPT
                                       ![q].timeoutId = IF @ = "armed" THEN "cleared" ELSE @,
                                       ![q].sent = Append(@, "resolved")],
                       pending |-> MapDelete(forwarder.pending, id)]
                /\ lastOp' = [op |-> "handleResolved", id |-> id, ret |-> TRUE]
    /\ UNCHANGED <<pending, regs, now, gateway>>

\* stop(): the timers of the entries in the map are cleared, the map is emptied
Stop ==
    /\ forwarder' =
          [entries |-> [q \in 1..Len(forwarder.entries) |->
                          IF \E id \in DOMAIN forwarder.pending : forwarder.pending[id] = q
                          THEN [forwarder.entries[q] EXCEPT
                                   !.timeoutId = IF @ = "armed" THEN "cleared" ELSE @]
                          ELSE forwarder.entries[q]],
           pending |-> <<>>]
    /\ lastOp' = [op |-> "stop", id |-> Undef, ret |-> TRUE]
    /\ UNCHANGED <<pending, regs, now, gateway>>

InitForwarder == HookIdle /\ ApprovalIdle /\ LLMIdle

NextForwarder ==
    \/ \E id \in ForwardIds, hasTargets \in BOOLEAN, t \in Timeouts :
          HandleRequested(id, hasTargets, now + t)
             /\ UNCHANGED <<hookVars, budgetVars, llm, probe>>
    \/ \E id \in ForwardIds : HandleResolved(id) /\ UNCHANGED <<hookVars, budgetVars, llm, probe>>
    \/ \E r \in RegIds : ExpiryFires(r) /\ UNCHANGED <<hookVars, budgetVars, llm, probe>>
    \/ Stop /\ UNCHANGED <<hookVars, budgetVars, llm, probe>>
    \/ Tick /\ UNCHANGED <<hookVars, budgetVars, llm, probe, gateway, forwarder>>

SpecForwarder == InitForwarder /\ [][NextForwarder]_vars

(***************************************************************************)
(* Properties of the forwarder (checked on SpecForwarder)                  *)
(***************************************************************************)
\* the resolved and the expiry messages delivered to the targets of entry q
TerminalOf(entries, q) ==
    SelectSeq(entries[q].sent, LAMBDA m : m \in {"resolved", "expired"})
Terminal(q) == TerminalOf(forwarder.entries, q)

\* C39: an entry stored by handleRequested gets at most one terminal message,
\* after the request message: none after its resolved message, none after its
\* expiry message; handleResolved for an id that is not pending sends nothing
\* and changes nothing in the forwarder, and one for a pending id delivers the
\* resolved message to the entry the map holds and takes it out of the map
C39_OneTerminalNotification ==
    /\ [](\A q \in 1..Len(forwarder.entries) :
             /\ Len(Terminal(q)) <= 1
             /\ forwarder.entries[q].sent[1] = "requested"
             /\ Terminal(q) = <<"resolved">> => forwarder.entries[q].timeoutId # "armed"
             /\ Terminal(q) # <<>> =>
                   \A id \in DOMAIN forwarder.pending : forwarder.pending[id] # q)
    /\ [][ lastOp'.op = "handleResolved" =>
              IF lastOp'.id \in DOMAIN forwarder.pending
              THEN /\ lastOp'.ret
                   /\ TerminalOf(forwarder'.entries, forwarder.pending[lastOp'.id]) = <<"resolved">>
                   /\ lastOp'.id \notin DOMAIN forwarder'.pending
              ELSE ~lastOp'.ret /\ forwarder' = forwarder ]_vars

\* the id was handed over twice, one after the other: the first entry was resolved,
\* the second expired, and a handleResolved that came after that found nothing
C39_Witness ==
    /\ lastOp = [op |-> "handleResolved", id |-> "x", ret |-> FALSE]
    /\ \E q, r \in 1..Len(forwarder.entries) :
          /\ forwarder.entries[q].id = "x" /\ forwarder.entries[r].id = "x"
          /\ forwarder.entries[q].sent = <<"requested", "resolved">>
          /\ forwarder.entries[r].sent = <<"requested", "expired">>

(***************************************************************************)
(* The hook with its approval channel: requestHumanApproval registers the  *)
(* approval with the manager (create, then waitForDecision with the        *)
(* configured timeout) and hands the outcome of that registration back to  *)
(* the hook, null on timeout. An adjudicator may never answer and nobody   *)
(* has to resolve an approval; the timers are what the scheduler owes.     *)
(* Time is observed only while a timer is armed and not yet due.           *)
(***************************************************************************)
LiveConfigs == { Config(TRUE, <<>>, None, FALSE, l, h) : l \in BOOLEAN, h \in BOOLEAN }

LiveCalls == { Call("read", P_tmp), Call("exec", P_two) }

\* the registration made for evaluation e when the step took it to Tier 3
Registered(e, timeoutMs) ==
    IF evals[e].pc # "human" /\ evals'[e].pc = "human"
    THEN LET r == Len(regs) + 1
         IN  /\ regs' = Append(regs,
                   [id |-> resolvedId(Undef, r), timeoutMs |-> timeoutMs, createdAtMs |-> now,
                    expiresAtMs |-> now + timeoutMs, resolvedAtMs |-> NoNumber,
                    decision |-> Undef, resolvedBy |-> Undef, timer |-> "armed",
                    deadline |-> now + timeoutMs, outcome |-> "unset", caller |-> e])
             /\ pending' = MapSet(pending, resolvedId(Undef, r), r)
    ELSE UNCHANGED <<pending, regs>>

\* the handler runs from its call to its first await or to its return
LiveStart(e, call, timeoutMs) ==
    /\ Start(e, call, Undef, Undef)
    /\ Registered(e, timeoutMs)
    /\ UNCHANGED <<now, lastOp, gateway, forwarder, llm, probe>>

\* the race of evaluateWithLLM settles: the adjudicator answered (a text) or
\* the adjudication timer fired (LLMTimeout)
LiveLLMReturn(e, settled, timeoutMs) ==
    /\ LLMReturn(e, settled)
    /\ Registered(e, timeoutMs)
    /\ UNCHANGED <<now, lastOp, gateway, forwarder, llm, probe>>

\* the promise of the registration made for e has settled and the handler goes on
LiveHumanReturn(e) ==
    /\ \E r \in 1..Len(regs) :
          /\ regs[r].caller = e
          /\ regs[r].outcome # "unset"
          /\ HumanReturn(e, regs[r].outcome)
    /\ UNCHANGED <<approvalVars, llm, probe>>

\* an operator answers one of the approvals waiting (allow-once, by user-42)
LiveResolve(id, decision, resolvedBy) ==
    /\ id \in DOMAIN pending
    /\ Resolve(id, decision, resolvedBy)
    /\ UNCHANGED <<hookVars, budgetVars, llm, probe, gateway, forwarder>>

LiveTimerFires(r) ==
    TimerFires(r) /\ UNCHANGED <<hookVars, budgetVars, llm, probe, gateway, forwarder>>

LiveTick ==
    /\ \E r \in 1..Len(regs) : regs[r].timer = "armed" /\ now < regs[r].deadline
    /\ Tick
    /\ UNCHANGED <<hookVars, budgetVars, llm, probe, gateway, forwarder>>

InitLive ==
    /\ cfg \in LiveConfigs
    /\ evals = [e \in EvalIds |-> IdleEval]
    /\ taskAllowCache = {}
    /\ alwaysAllowCache = {}
    /\ sessionTotal = 0
    /\ sessionCosts = NoAgentCosts
    /\ dailyCache = None
    /\ ledger = StoredLedger
    /\ file = FileState("ok", TRUE)
    /\ today = 1
    /\ peer = NewTracker
    /\ ApprovalIdle
    /\ LLMIdle
    /\ probe = NoProbe

NextLive ==
    \/ \E e \in EvalIds, call \in LiveCalls, t \in Timeouts : LiveStart(e, call, t)
    \/ \E e \in EvalIds, settled \in HookAnswers, t \in Timeouts : LiveLLMReturn(e, settled, t)
    \/ \E e \in EvalIds : LiveHumanReturn(e)
    \/ \E id \in RecordIds : LiveResolve(id, "allow-once", "user-42")
    \/ \E r \in RegIds : LiveTimerFires(r)
    \/ LiveTick

\* the timers fire when due, time passes while one is armed, and a handler
\* whose awaited promise has settled is resumed
SpecLive ==
    /\ InitLive /\ [][NextLive]_vars
    /\ \A e \in EvalIds :
          /\ WF_vars(\E t \in Timeouts : LiveLLMReturn(e, LLMTimeout, t))
          /\ WF_vars(LiveHumanReturn(e))
    /\ \A r \in RegIds : WF_vars(LiveTimerFires(r))
    /\ WF_vars(LiveTick)

(***************************************************************************)
(* Properties of the hook with its approval channel (checked on SpecLive)  *)
(***************************************************************************)
\* the LLM result of an adjudication that timed out
TimedOut(ev) ==
    /\ Has(ev, "llm") /\ ev.pc # "llm"
    /\ ev.llmResult.reason = evaluateWithLLM(LLMTimeout).reason

\* C40: every evaluation that started returns, so one waiting for the
\* adjudicator leaves Tier 2; when it left because the adjudication timed out
\* it is in Tier 3 waiting for an approval (or blocked where no approval
\* handler is configured); every registration made by waitForDecision
\* settles, with a decision or with null
C40_EveryEvaluationReturns ==
    /\ \A e \in EvalIds : (evals[e].pc # "idle") ~> (evals[e].pc = "done")
    /\ [][ \A e \in EvalIds :
              evals[e].pc = "llm" /\ evals'[e].pc # "llm" /\ TimedOut(evals'[e]) =>
                 /\ Has(evals'[e], "human") = cfg.hasHuman
                 /\ IF cfg.hasHuman
                    THEN /\ evals'[e].pc = "human"
                         /\ \E r \in 1..Len(regs') : regs'[r].caller = e /\ regs'[r].timer = "armed"
                    ELSE evals'[e].pc = "done" /\ evals'[e].block ]_vars
    /\ \A r \in RegIds :
          (r <= Len(regs)) ~> (r <= Len(regs) /\ regs[r].outcome \in HumanDecisions)

\* an adjudication timed out, the approval asked for then timed out too, and
\* the evaluation returned blocked
C40_Witness ==
    \E e \in EvalIds, r \in 1..Len(regs) :
       /\ evals[e].pc = "done" /\ evals[e].block
       /\ TimedOut(evals[e])
       /\ regs[r].caller = e /\ regs[r].outcome = Null /\ regs[r].timer = "fired"

(***************************************************************************)
(* llm-evaluator.ts: one call of evaluateWithLLM. llm.answer is what the   *)
(* promise of callLLM does (LLMTimeout: it never settles), llm.timer the   *)
(* setTimeout of the race, llm.result what the call returned.              *)
(***************************************************************************)
LLMAnswers == {LLMText(t) : t \in Texts} \cup {LLMError, LLMTimeout}

\* evaluateWithLLM(params) runs to its await of Promise.race
CallLLM(answer) ==
    /\ llm.pc = "idle"
    /\ llm' = [pc |-> "racing", answer |-> answer, delivered |-> FALSE, timer |-> "armed",
               result |-> None]

\* the promise of callLLM fulfils or rejects; the race takes it if it is the first
LLMSettles ==
    /\ llm.pc # "idle"
    /\ llm.answer # LLMTimeout
    /\ ~llm.delivered
    /\ llm' = [llm EXCEPT !.delivered = TRUE,
                          !.pc = "returned",
                          !.result = IF llm.pc = "racing"
                                     THEN Some(evaluateWithLLM(llm.answer)) ELSE @]

\* the timer of the race rejects; it is never cleared, so it also fires after an answer
LLMTimerFires ==
    /\ llm.timer = "armed"
    /\ llm' = [llm EXCEPT !.timer = "fired",
                          !.pc = "returned",
                          !.result = IF llm.pc = "racing"
                                     THEN Some(evaluateWithLLM(LLMTimeout)) ELSE @]

InitLLM == HookIdle /\ ApprovalIdle /\ LLMIdle

NextLLM ==
    \/ /\ llm.pc = "idle"
       /\ \E answer \in LLMAnswers : CallLLM(answer)
       /\ UNCHANGED <<hookVars, budgetVars, approvalVars, probe>>
    \/ LLMSettles /\ UNCHANGED <<hookVars, budgetVars, approvalVars, probe>>
    \/ LLMTimerFires /\ UNCHANGED <<hookVars, budgetVars, approvalVars, probe>>

SpecLLM == InitLLM /\ [][NextLLM]_vars

(***************************************************************************)
(* Properties of evaluateWithLLM (checked on SpecLLM)                      *)
(***************************************************************************)
HasToken(t, toks) == \E i \in 1..Len(t) : t[i] \in toks

\* C3: evaluateWithLLM always returns a result with one of the three decisions. The
\* result is escalate when callLLM rejects, when the timer fires before an answer,
\* and when the answer holds no allow, deny or escalate decision; it is allow only if
\* a text answer holding an allow decision arrived before the timer fired. The
\* result, once returned, is not changed by a late answer or a late timer.
C3_LLMFailsToEscalate ==
    /\ [](llm.pc = "returned" =>
            /\ llm.result # None
            /\ llm.result[1].decision \in LLMDecisions
            /\ llm.answer.kind # "text" => llm.result[1].decision = "escalate"
            /\ (llm.answer.kind = "text"
                   /\ ~HasToken(llm.answer.text, {"D_allow", "D_ALLOW", "D_deny", "D_escalate"}))
                 => llm.result[1].decision = "escalate"
            /\ llm.result[1].decision = "allow" =>
                 /\ llm.answer.kind = "text"
                 /\ llm.delivered
                 /\ HasToken(llm.answer.text, {"D_allow", "D_ALLOW"})
                 /\ HasToken(llm.answer.text, {"{"}))
    /\ [][ /\ (llm.pc = "racing" /\ llm'.timer = "fired")
                => llm'.result = Some(LLMResult("escalate",
                                     "LLM evaluation failed: Error: LLM evaluation timed out"))
           /\ llm.pc = "returned" => llm'.result = llm.result ]_vars

\* an allow that arrived after the timer had fired: the call had returned escalate
C3_Witness ==
    /\ llm.pc = "returned" /\ llm.timer = "fired" /\ llm.delivered
    /\ llm.answer = LLMText(<<"{", "D_allow", "}">>)
    /\ llm.result[1].decision = "escalate"

====
